---- MODULE Spec2Model ----
(***************************************************************************)
(* Grid delivery search: the Grid model, the DeliveryProblem adapter, the  *)
(* GenericSearch engine (BF, DF, ID, UC, GR1/2, AS1/2) and the             *)
(* DeliveryPlanner's load-balanced assignment.                             *)
(***************************************************************************)
EXTENDS Integers, Sequences, FiniteSets, TLC

VARIABLES
    grid,           \* Grid: m, n, stores, customers, traffic, tunnels
    problem,        \* DeliveryProblem: start_pos, goal_pos (grid is the shared Grid)
    search,         \* GenericSearch object and the locals of its running method
    runs,           \* per search object created, the triples its solve() calls returned
    plan,           \* DeliveryPlanner: analysis data and the locals of an assignment
    tick            \* flips at every step the calling thread executes

vars == <<grid, problem, search, runs, plan, tick>>

----------------------------------------------------------------------------
(* Bounds of the model *)

GridM == 2
GridN == 2
MaxTraffic == 2
MaxBlocked == 2
MaxHeavy == 1
MaxTunnels == 1
MaxRuns == 2
MaxStores == 2
MaxCustomers == 3
MaxLoadDiff == 2
MaxActions == 3
MaxAddTunnel == 3
WideM == 2
WideN == 3
WideBlocked == 1

----------------------------------------------------------------------------
(* Values of the Python program *)

Infinity == 1000000

NoneLevel == -1

NonePos == <<>>

NonePath == <<"None">>

NoneNode == [none |-> TRUE]

Abs(i) == IF i < 0 THEN -i ELSE i

\* min() of a non-empty collection of numbers
MinOf(S) == CHOOSE x \in S : \A y \in S : x <= y

Max2(a, b) == IF a > b THEN a ELSE b

----------------------------------------------------------------------------
(* DataStructure: Position, Edge, Grid, DeliveryState *)

Position(x, y) == <<x, y>>

manhattan_distance(p, q) == Abs(p[1] - q[1]) + Abs(p[2] - q[2])

PosLE(p, q) == p[1] < q[1] \/ (p[1] = q[1] /\ p[2] <= q[2])

Edge(pos1, pos2) == IF PosLE(pos1, pos2) THEN <<pos1, pos2>> ELSE <<pos2, pos1>>

get_traffic_level(G, pos1, pos2) ==
    IF Edge(pos1, pos2) \in DOMAIN G.traffic THEN G.traffic[Edge(pos1, pos2)]
    ELSE NoneLevel

is_blocked(G, pos1, pos2) == get_traffic_level(G, pos1, pos2) = 0

get_tunnel_exit(G, pos) ==
    IF pos \in DOMAIN G.tunnels THEN G.tunnels[pos] ELSE NonePos

add_tunnel(G, entrance1, entrance2) ==
    LET t1 == [p \in DOMAIN G.tunnels \cup {entrance1} |->
                  IF p = entrance1 THEN entrance2 ELSE G.tunnels[p]]
        t2 == [p \in DOMAIN t1 \cup {entrance2} |->
                  IF p = entrance2 THEN entrance1 ELSE t1[p]]
    IN  [G EXCEPT !.tunnels = t2]

DeliveryState(current_pos, target_pos, cost_so_far) ==
    [current_pos |-> current_pos, target_pos |-> target_pos,
     cost_so_far |-> cost_so_far]

\* states compared on the accumulated cost as well
StateKey_with_cost(state) ==
    <<state.current_pos, state.target_pos, state.cost_so_far>>

\* DeliveryState.__eq__ / __hash__: the accumulated cost is not part of the key
StateKey(state) == <<state.current_pos, state.target_pos>>

----------------------------------------------------------------------------
(* Search/Delivery_problem.py *)

get_start_state(P) == DeliveryState(P.start_pos, P.goal_pos, 0)

is_goal_state(P, state) == state.current_pos = P.goal_pos

directions ==
    << <<"up", Position(0, -1)>>, <<"down", Position(0, 1)>>,
       <<"left", Position(-1, 0)>>, <<"right", Position(1, 0)>> >>

\* MoveSuccessor with the bounds test off by one
MoveSuccessor_short_bounds(G, P, state, d) ==
    LET current_pos == state.current_pos
        new_x == current_pos[1] + d[2][1]
        new_y == current_pos[2] + d[2][2]
        new_pos == Position(new_x, new_y)
        traffic == get_traffic_level(G, current_pos, new_pos)
    IN  IF ~(0 <= new_x /\ new_x < G.m - 1 /\ 0 <= new_y /\ new_y < G.n - 1) THEN <<>>
        ELSE IF is_blocked(G, current_pos, new_pos) THEN <<>>
        ELSE IF traffic = NoneLevel THEN <<>>
        ELSE << [state |-> DeliveryState(new_pos, P.goal_pos,
                                          state.cost_so_far + traffic),
                 action |-> d[1], cost |-> traffic] >>

\* one pass of the loop over directions: the successor appended, or nothing
MoveSuccessor(G, P, state, d) ==
    LET current_pos == state.current_pos
        new_x == current_pos[1] + d[2][1]
        new_y == current_pos[2] + d[2][2]
        new_pos == Position(new_x, new_y)
        traffic == get_traffic_level(G, current_pos, new_pos)
    IN  IF ~(0 <= new_x /\ new_x < G.m /\ 0 <= new_y /\ new_y < G.n) THEN <<>>
        ELSE IF is_blocked(G, current_pos, new_pos) THEN <<>>
        ELSE IF traffic = NoneLevel THEN <<>>
        ELSE << [state |-> DeliveryState(new_pos, P.goal_pos,
                                          state.cost_so_far + traffic),
                 action |-> d[1], cost |-> traffic] >>

\* TunnelSuccessor with the tunnel charged as one segment of level 1
TunnelSuccessor_unit_cost(G, P, state) ==
    LET current_pos == state.current_pos
        tunnel_exit == get_tunnel_exit(G, current_pos)
        tunnel_cost == 1
    IN  IF tunnel_exit = NonePos THEN <<>>
        ELSE << [state |-> DeliveryState(tunnel_exit, P.goal_pos,
                                          state.cost_so_far + tunnel_cost),
                 action |-> "tunnel", cost |-> tunnel_cost] >>

\* the tunnel leaving the position, if one does
TunnelSuccessor(G, P, state) ==
    LET current_pos == state.current_pos
        tunnel_exit == get_tunnel_exit(G, current_pos)
        tunnel_cost == manhattan_distance(current_pos, tunnel_exit)
    IN  IF tunnel_exit = NonePos THEN <<>>
        ELSE << [state |-> DeliveryState(tunnel_exit, P.goal_pos,
                                          state.cost_so_far + tunnel_cost),
                 action |-> "tunnel", cost |-> tunnel_cost] >>

\* get_successors with the tunnel looked up before the directions
get_successors_tunnel_first(G, P, state) ==
    TunnelSuccessor(G, P, state)
      \o MoveSuccessor(G, P, state, directions[1])
      \o MoveSuccessor(G, P, state, directions[2])
      \o MoveSuccessor(G, P, state, directions[3])
      \o MoveSuccessor(G, P, state, directions[4])

get_successors(G, P, state) ==
    MoveSuccessor(G, P, state, directions[1])
      \o MoveSuccessor(G, P, state, directions[2])
      \o MoveSuccessor(G, P, state, directions[3])
      \o MoveSuccessor(G, P, state, directions[4])
      \o TunnelSuccessor(G, P, state)

\* ActionTarget with up and down exchanged
ActionTarget_up_is_down(G, current_pos, action) ==
    CASE action = "up" -> Position(current_pos[1], current_pos[2] + 1)
      [] action = "down" -> Position(current_pos[1], current_pos[2] - 1)
      [] action = "left" -> Position(current_pos[1] - 1, current_pos[2])
      [] action = "right" -> Position(current_pos[1] + 1, current_pos[2])
      [] action = "tunnel" -> get_tunnel_exit(G, current_pos)
      [] OTHER -> NonePos

\* the position an action leads to from current_pos (NonePos: no such action)
ActionTarget(G, current_pos, action) ==
    CASE action = "up" -> Position(current_pos[1], current_pos[2] - 1)
      [] action = "down" -> Position(current_pos[1], current_pos[2] + 1)
      [] action = "left" -> Position(current_pos[1] - 1, current_pos[2])
      [] action = "right" -> Position(current_pos[1] + 1, current_pos[2])
      [] action = "tunnel" -> get_tunnel_exit(G, current_pos)
      [] OTHER -> NonePos

RECURSIVE CostOfActionsFrom(_, _, _, _)
CostOfActionsFrom(G, current_pos, total_cost, actions) ==
    IF actions = <<>> THEN total_cost
    ELSE LET action == Head(actions)
             new_pos == ActionTarget(G, current_pos, action)
             traffic == get_traffic_level(G, current_pos, new_pos)
         IN  IF action = "tunnel"
             THEN IF new_pos = NonePos THEN Infinity
                  ELSE CostOfActionsFrom(G, new_pos,
                          total_cost + manhattan_distance(current_pos, new_pos),
                          Tail(actions))
             ELSE IF action \notin {"up", "down", "left", "right"} THEN Infinity
             ELSE IF is_blocked(G, current_pos, new_pos) THEN Infinity
             ELSE IF traffic = NoneLevel THEN Infinity
             ELSE CostOfActionsFrom(G, new_pos, total_cost + traffic, Tail(actions))

get_cost_of_actions(G, P, actions) == CostOfActionsFrom(G, P.start_pos, 0, actions)

----------------------------------------------------------------------------
(* Search/Tree_node.py *)

Node(state, parent, action, path_cost, depth, heuristic) ==
    [state |-> state, parent |-> parent, action |-> action,
     path_cost |-> path_cost, depth |-> depth, heuristic |-> heuristic]

NodeLT(self, other) ==
    (self.path_cost + self.heuristic) < (other.path_cost + other.heuristic)

RECURSIVE get_path(_)
get_path(node) ==
    IF node.parent = NoneNode THEN <<>>
    ELSE Append(get_path(node.parent), node.action)

----------------------------------------------------------------------------
(* heapq on a list of (priority, node) tuples *)

At(heap, i) == heap[i + 1]

Put(heap, i, item) == [heap EXCEPT ![i + 1] = item]

\* tuple comparison: the priorities decide; on equal priorities Node.__lt__
EntryLT(a, b) ==
    IF a.prio # b.prio THEN a.prio < b.prio ELSE NodeLT(a.node, b.node)

RECURSIVE siftdown(_, _, _, _)
siftdown(heap, startpos, pos, newitem) ==
    IF pos > startpos
    THEN LET parentpos == (pos - 1) \div 2
             parent == At(heap, parentpos)
         IN  IF EntryLT(newitem, parent)
             THEN siftdown(Put(heap, pos, parent), startpos, parentpos, newitem)
             ELSE Put(heap, pos, newitem)
    ELSE Put(heap, pos, newitem)

heappush(heap, item) == siftdown(Append(heap, item), 0, Len(heap), item)

RECURSIVE siftup_loop(_, _, _, _)
siftup_loop(heap, pos, childpos, endpos) ==
    IF childpos < endpos
    THEN LET rightpos == childpos + 1
             c == IF rightpos < endpos
                     /\ ~EntryLT(At(heap, childpos), At(heap, rightpos))
                  THEN rightpos ELSE childpos
         IN  siftup_loop(Put(heap, pos, At(heap, c)), c, 2 * c + 1, endpos)
    ELSE <<heap, pos>>

siftup(heap, pos) ==
    LET newitem == At(heap, pos)
        r == siftup_loop(heap, pos, 2 * pos + 1, Len(heap))
    IN  siftdown(Put(r[1], r[2], newitem), pos, r[2], newitem)

heappop(heap) ==
    LET lastelt == heap[Len(heap)]
        rest == SubSeq(heap, 1, Len(heap) - 1)
    IN  IF rest # <<>>
        THEN [item |-> rest[1], heap |-> siftup(Put(rest, 0, lastelt), 0)]
        ELSE [item |-> lastelt, heap |-> rest]

----------------------------------------------------------------------------
(* Search/Generic_search.py: strategy identifiers are strings, modelled as *)
(* sequences of characters so that startswith, indexing and int() are the  *)
(* operations of the code.                                                 *)

BF == <<"B", "F">>
DF == <<"D", "F">>
ID == <<"I", "D">>
UC == <<"U", "C">>
GR1 == <<"G", "R", "1">>
GR2 == <<"G", "R", "2">>
AS1 == <<"A", "S", "1">>
AS2 == <<"A", "S", "2">>

strategies == <<BF, DF, ID, UC, GR1, GR2, AS1, AS2>>

KnownStrategies == {strategies[i] : i \in 1..Len(strategies)}

startswith(str, prefix) ==
    Len(str) >= Len(prefix) /\ SubSeq(str, 1, Len(prefix)) = prefix

Digits == <<"0", "1", "2", "3", "4", "5", "6", "7", "8", "9">>

IsDigit(ch) == \E i \in 1..10 : Digits[i] = ch

\* int() of a one-character string; raises ValueError when IsDigit is false
IntOf(ch) == (CHOOSE i \in 1..10 : Digits[i] = ch) - 1

NoResult == [path |-> NonePath, cost |-> 0, nodes_expanded |-> 0]

Result(path, cost, nodes_expanded) ==
    [path |-> path, cost |-> cost, nodes_expanded |-> nodes_expanded]

\* GenericSearch.__init__, and the locals of the search methods before a call
GenericSearch(strategy, heuristic_name) ==
    [strategy |-> strategy, heuristic_name |-> heuristic_name,
     nodes_expanded |-> 0, max_memory |-> 0,
     pc |-> "init", start_node |-> NoneNode, heuristic_num |-> 0,
     frontier |-> <<>>, explored |-> {}, cost_so_far |-> <<>>,
     limit |-> 0, depth |-> 0, total_nodes_expanded |-> 0,
     result |-> NoResult]

Chebyshev(p, q) == Max2(Abs(p[1] - q[1]), Abs(p[2] - q[2]))

\* GenericSearch._calculate_heuristic ('euclidean' is never drawn: it needs reals)
calculate_heuristic(P, heuristic_name, state) ==
    CASE heuristic_name = "manhattan" ->
             manhattan_distance(state.current_pos, P.goal_pos)
      [] heuristic_name = "zero" -> 0
      [] heuristic_name = "diagonal" -> Chebyshev(state.current_pos, P.goal_pos)
      [] OTHER -> manhattan_distance(state.current_pos, P.goal_pos)

\* the heuristic_func lambdas of greedy_search and a_star_search
heuristic_func(P, heuristic_num, state) ==
    IF heuristic_num = 1 THEN manhattan_distance(state.current_pos, P.goal_pos)
    ELSE IF heuristic_num = 2 THEN Chebyshev(state.current_pos, P.goal_pos)
    ELSE 0

\* a search method returns: its locals are dropped, the object keeps its fields
Return(s, path, cost, nodes_expanded) ==
    [s EXCEPT !.pc = "done", !.result = Result(path, cost, nodes_expanded),
              !.start_node = NoneNode, !.heuristic_num = 0,
              !.frontier = <<>>, !.explored = {}, !.cost_so_far = <<>>,
              !.limit = 0, !.depth = 0, !.total_nodes_expanded = 0]

Raise(s) ==
    [s EXCEPT !.pc = "error", !.result = NoResult,
              !.start_node = NoneNode, !.heuristic_num = 0,
              !.frontier = <<>>, !.explored = {}, !.cost_so_far = <<>>,
              !.limit = 0, !.depth = 0, !.total_nodes_expanded = 0]

\* Child with the step cost as path cost
Child_step_cost(node, t, heuristic) ==
    Node(t.state, node, t.action, t.cost, node.depth + 1, heuristic)

Child(node, t, heuristic) ==
    Node(t.state, node, t.action, node.path_cost + t.cost, node.depth + 1, heuristic)

UpdateMaxMemory(s) ==
    [s EXCEPT !.max_memory =
        Max2(s.max_memory, Len(s.frontier) + Cardinality(s.explored))]

\* continue that leaves the node on the frontier: the next pass sees it again
Continue_unpopped(s0, s2) == s0

\* continue: the popped node is dropped (s0 before the pop, s2 after it) and
\* the loop takes its next pass
Continue(s0, s2) == s2

----------------------------------------------------------------------------
(* breadth_first_search *)

breadth_first_search(P, s, start_node) ==
    IF is_goal_state(P, start_node.state) THEN Return(s, <<>>, 0, 0)
    ELSE [s EXCEPT !.pc = "BF", !.start_node = start_node,
                   !.frontier = <<start_node>>, !.explored = {}]

\* popleft taking the newest node instead of the oldest
popleft_newest(frontier) ==
    [item |-> frontier[Len(frontier)],
     rest |-> SubSeq(frontier, 1, Len(frontier) - 1)]

\* deque.popleft
popleft(frontier) == [item |-> Head(frontier), rest |-> Tail(frontier)]

\* BreadthFirstLoop with the goal test on the popped node: children are pushed
\* untested
BreadthFirstLoop_goal_at_pop(G, P, s0) ==
    IF s0.frontier = <<>> THEN Return(s0, NonePath, Infinity, s0.nodes_expanded)
    ELSE
    LET s1 == UpdateMaxMemory(s0)
        node == popleft(s1.frontier).item
        s2 == [s1 EXCEPT !.frontier = popleft(s1.frontier).rest,
                         !.nodes_expanded = s1.nodes_expanded + 1]
    IN  IF is_goal_state(P, node.state)
        THEN Return(s2, get_path(node), node.path_cost, s2.nodes_expanded)
        ELSE IF StateKey(node.state) \in s2.explored THEN Continue(s0, s2)
        ELSE
        LET explored == s2.explored \cup {StateKey(node.state)}
            Fresh(t) == StateKey(t.state) \notin explored
            succ == SelectSeq(get_successors(G, P, node.state), Fresh)
            children == [i \in 1..Len(succ) |-> Child(node, succ[i], 0)]
        IN  [s2 EXCEPT !.explored = explored,
                       !.frontier = IF succ = <<>> THEN s2.frontier
                                    ELSE s2.frontier \o children]

\* one pass of the while loop (or the return after it)
BreadthFirstLoop(G, P, s0) ==
    IF s0.frontier = <<>> THEN Return(s0, NonePath, Infinity, s0.nodes_expanded)
    ELSE
    LET s1 == UpdateMaxMemory(s0)
        node == popleft(s1.frontier).item
        s2 == [s1 EXCEPT !.frontier = popleft(s1.frontier).rest,
                         !.nodes_expanded = s1.nodes_expanded + 1]
    IN  IF StateKey(node.state) \in s2.explored THEN Continue(s0, s2)
        ELSE
        LET explored == s2.explored \cup {StateKey(node.state)}
            Fresh(t) == StateKey(t.state) \notin explored
            succ == SelectSeq(get_successors(G, P, node.state), Fresh)
            goals == {i \in 1..Len(succ) : is_goal_state(P, succ[i].state)}
            children == [i \in 1..Len(succ) |-> Child(node, succ[i], 0)]
        IN  IF goals # {}
            THEN LET g == CHOOSE i \in goals : \A j \in goals : i <= j
                 IN  Return(s2, get_path(children[g]), children[g].path_cost,
                            s2.nodes_expanded)
            ELSE [s2 EXCEPT !.explored = explored,
                            !.frontier = IF succ = <<>> THEN s2.frontier
                                         ELSE s2.frontier \o children]

----------------------------------------------------------------------------
(* depth_first_search and iterative_deepening_search *)

DepthCap == 1000

depth_first_search(s, start_node, limit) ==
    [s EXCEPT !.start_node = start_node, !.limit = limit,
              !.frontier = <<start_node>>, !.explored = {}]

\* DepthFirstReturn that reports the pops of the last iteration only
DepthFirstReturn_last_iteration(s, path, cost) ==
    IF s.pc = "DF" THEN Return(s, path, cost, s.nodes_expanded)
    ELSE
    LET total == s.nodes_expanded
        depth == s.depth + 1
    IN  IF path # NonePath THEN Return(s, path, cost, total)
        ELSE IF depth > DepthCap THEN Return(s, NonePath, Infinity, total)
        ELSE depth_first_search(
                 [s EXCEPT !.total_nodes_expanded = total, !.depth = depth,
                           !.nodes_expanded = 0, !.max_memory = 0],
                 s.start_node, depth)

\* depth_first_search returns (path, cost, self.nodes_expanded) to its caller:
\* solve() for DF, the loop of iterative_deepening_search for ID
DepthFirstReturn(s, path, cost) ==
    IF s.pc = "DF" THEN Return(s, path, cost, s.nodes_expanded)
    ELSE
    LET total == s.total_nodes_expanded + s.nodes_expanded
        depth == s.depth + 1
    IN  IF path # NonePath THEN Return(s, path, cost, total)
        ELSE IF depth > DepthCap THEN Return(s, NonePath, Infinity, total)
        ELSE depth_first_search(
                 [s EXCEPT !.total_nodes_expanded = total, !.depth = depth,
                           !.nodes_expanded = 0, !.max_memory = 0],
                 s.start_node, depth)

iterative_deepening_search(s, start_node) ==
    depth_first_search(
        [s EXCEPT !.pc = "ID", !.depth = 0, !.total_nodes_expanded = 0,
                  !.nodes_expanded = 0, !.max_memory = 0],
        start_node, 0)

Reverse(seq) == [i \in 1..Len(seq) |-> seq[Len(seq) + 1 - i]]

\* DepthFirstLoop with the state of a node at the ceiling added to explored
DepthFirstLoop_marks_ceiling(G, P, s0) ==
    IF s0.frontier = <<>> THEN DepthFirstReturn(s0, NonePath, Infinity)
    ELSE
    LET s1 == UpdateMaxMemory(s0)
        node == s1.frontier[Len(s1.frontier)]
        s2 == [s1 EXCEPT !.frontier = SubSeq(s1.frontier, 1, Len(s1.frontier) - 1),
                         !.nodes_expanded = s1.nodes_expanded + 1]
    IN  IF is_goal_state(P, node.state)
        THEN DepthFirstReturn(s2, get_path(node), node.path_cost)
        ELSE IF StateKey(node.state) \in s2.explored THEN Continue(s0, s2)
        ELSE IF node.depth >= s2.limit
        THEN [s2 EXCEPT !.explored = s2.explored \cup {StateKey(node.state)}]
        ELSE
        LET explored == s2.explored \cup {StateKey(node.state)}
            Fresh(t) == StateKey(t.state) \notin explored
            all == get_successors(G, P, node.state)
            succ == IF all = <<>> THEN <<>> ELSE SelectSeq(Reverse(all), Fresh)
            children == [i \in 1..Len(succ) |-> Child(node, succ[i], 0)]
        IN  [s2 EXCEPT !.explored = explored,
                       !.frontier = IF succ = <<>> THEN s2.frontier
                                    ELSE s2.frontier \o children]

DepthFirstLoop(G, P, s0) ==
    IF s0.frontier = <<>> THEN DepthFirstReturn(s0, NonePath, Infinity)
    ELSE
    LET s1 == UpdateMaxMemory(s0)
        node == s1.frontier[Len(s1.frontier)]
        s2 == [s1 EXCEPT !.frontier = SubSeq(s1.frontier, 1, Len(s1.frontier) - 1),
                         !.nodes_expanded = s1.nodes_expanded + 1]
    IN  IF is_goal_state(P, node.state)
        THEN DepthFirstReturn(s2, get_path(node), node.path_cost)
        ELSE IF StateKey(node.state) \in s2.explored \/ node.depth >= s2.limit
        THEN Continue(s0, s2)
        ELSE
        LET explored == s2.explored \cup {StateKey(node.state)}
            Fresh(t) == StateKey(t.state) \notin explored
            all == get_successors(G, P, node.state)
            succ == IF all = <<>> THEN <<>> ELSE SelectSeq(Reverse(all), Fresh)
            children == [i \in 1..Len(succ) |-> Child(node, succ[i], 0)]
        IN  [s2 EXCEPT !.explored = explored,
                       !.frontier = IF succ = <<>> THEN s2.frontier
                                    ELSE s2.frontier \o children]

----------------------------------------------------------------------------
(* uniform_cost_search, greedy_search, a_star_search *)

Entry(prio, node) == [prio |-> prio, node |-> node]

DictSet(d, k, v) == [x \in DOMAIN d \cup {k} |-> IF x = k THEN v ELSE d[x]]

uniform_cost_search(P, s, start_node) ==
    IF is_goal_state(P, start_node.state) THEN Return(s, <<>>, 0, 0)
    ELSE [s EXCEPT !.pc = "UC", !.start_node = start_node,
                   !.frontier = heappush(<<>>, Entry(start_node.path_cost, start_node)),
                   !.explored = {},
                   !.cost_so_far = DictSet(<<>>, StateKey(start_node.state), 0)]

\* Cheaper that also takes a path of the recorded cost
Cheaper_or_equal(cost_so_far, state, new_cost) ==
    StateKey(state) \notin DOMAIN cost_so_far
        \/ new_cost <= cost_so_far[StateKey(state)]

\* Cheaper without the relaxation: only a state never seen is pushed
Cheaper_first_seen(cost_so_far, state, new_cost) ==
    StateKey(state) \notin DOMAIN cost_so_far

\* the condition under which uniform_cost_search and a_star_search push a child
Cheaper(cost_so_far, state, new_cost) ==
    StateKey(state) \notin DOMAIN cost_so_far
        \/ new_cost < cost_so_far[StateKey(state)]

\* f_value that leaves the path cost out, as the priority of greedy_search does
f_value_heuristic_only(new_cost, heuristic) == heuristic

\* f_value = new_cost + heuristic, the priority of a child in a_star_search
f_value(new_cost, heuristic) == new_cost + heuristic

\* the for loop over the successors of node, in uniform_cost_search (heuristic
\* 0 and priority new_cost) and in a_star_search (priority f_value)
RECURSIVE RelaxSuccessors(_, _, _, _, _, _)
RelaxSuccessors(P, s, node, succ, informed, i) ==
    IF i > Len(succ) THEN s
    ELSE
    LET t == succ[i]
        new_cost == node.path_cost + t.cost
        heuristic == IF informed THEN heuristic_func(P, s.heuristic_num, t.state)
                     ELSE 0
        child == Child(node, t, heuristic)
    IN  IF Cheaper(s.cost_so_far, t.state, new_cost)
        THEN RelaxSuccessors(P,
                 [s EXCEPT !.cost_so_far = DictSet(s.cost_so_far, StateKey(t.state), new_cost),
                           !.frontier = heappush(s.frontier,
                               Entry(IF informed THEN f_value(new_cost, heuristic)
                                     ELSE new_cost, child))],
                 node, succ, informed, i + 1)
        ELSE RelaxSuccessors(P, s, node, succ, informed, i + 1)

UniformCostLoop(G, P, s0) ==
    IF s0.frontier = <<>> THEN Return(s0, NonePath, Infinity, s0.nodes_expanded)
    ELSE
    LET s1 == UpdateMaxMemory(s0)
        popped == heappop(s1.frontier)
        node == popped.item.node
        s2 == [s1 EXCEPT !.frontier = popped.heap,
                         !.nodes_expanded = s1.nodes_expanded + 1]
    IN  IF is_goal_state(P, node.state)
        THEN Return(s2, get_path(node), node.path_cost, s2.nodes_expanded)
        ELSE IF StateKey(node.state) \in s2.explored THEN Continue(s0, s2)
        ELSE RelaxSuccessors(P,
                 [s2 EXCEPT !.explored = s2.explored \cup {StateKey(node.state)}],
                 node, get_successors(G, P, node.state), FALSE, 1)

greedy_search(P, s, start_node, heuristic_num) ==
    IF is_goal_state(P, start_node.state) THEN Return(s, <<>>, 0, 0)
    ELSE [s EXCEPT !.pc = "GR", !.start_node = start_node,
                   !.heuristic_num = heuristic_num,
                   !.frontier = heappush(<<>>,
                       Entry(heuristic_func(P, heuristic_num, start_node.state),
                             start_node)),
                   !.explored = {}]

RECURSIVE PushChildren(_, _, _, _, _, _)
PushChildren(P, heuristic_num, frontier, node, succ, i) ==
    IF i > Len(succ) THEN frontier
    ELSE LET child == Child(node, succ[i],
                            heuristic_func(P, heuristic_num, succ[i].state))
         IN  PushChildren(P, heuristic_num,
                          heappush(frontier, Entry(child.heuristic, child)),
                          node, succ, i + 1)

GreedyLoop(G, P, s0) ==
    IF s0.frontier = <<>> THEN Return(s0, NonePath, Infinity, s0.nodes_expanded)
    ELSE
    LET s1 == UpdateMaxMemory(s0)
        popped == heappop(s1.frontier)
        node == popped.item.node
        s2 == [s1 EXCEPT !.frontier = popped.heap,
                         !.nodes_expanded = s1.nodes_expanded + 1]
    IN  IF is_goal_state(P, node.state)
        THEN Return(s2, get_path(node), node.path_cost, s2.nodes_expanded)
        ELSE IF StateKey(node.state) \in s2.explored THEN Continue(s0, s2)
        ELSE
        LET explored == s2.explored \cup {StateKey(node.state)}
            Fresh(t) == StateKey(t.state) \notin explored
            succ == SelectSeq(get_successors(G, P, node.state), Fresh)
        IN  [s2 EXCEPT !.explored = explored,
                       !.frontier = PushChildren(P, s2.heuristic_num, s2.frontier,
                                                 node, succ, 1)]

a_star_search(P, s, start_node, heuristic_num) ==
    IF is_goal_state(P, start_node.state) THEN Return(s, <<>>, 0, 0)
    ELSE [s EXCEPT !.pc = "AS", !.start_node = start_node,
                   !.heuristic_num = heuristic_num,
                   !.frontier = heappush(<<>>,
                       Entry(start_node.path_cost
                               + heuristic_func(P, heuristic_num, start_node.state),
                             start_node)),
                   !.explored = {},
                   !.cost_so_far = DictSet(<<>>, StateKey(start_node.state),
                                           start_node.path_cost)]

AStarLoop(G, P, s0) ==
    IF s0.frontier = <<>> THEN Return(s0, NonePath, Infinity, s0.nodes_expanded)
    ELSE
    LET s1 == UpdateMaxMemory(s0)
        popped == heappop(s1.frontier)
        node == popped.item.node
        s2 == [s1 EXCEPT !.frontier = popped.heap,
                         !.nodes_expanded = s1.nodes_expanded + 1]
    IN  IF is_goal_state(P, node.state)
        THEN Return(s2, get_path(node), node.path_cost, s2.nodes_expanded)
        ELSE IF StateKey(node.state) \in s2.explored THEN Continue(s0, s2)
        ELSE RelaxSuccessors(P,
                 [s2 EXCEPT !.explored = s2.explored \cup {StateKey(node.state)}],
                 node, get_successors(G, P, node.state), TRUE, 1)

----------------------------------------------------------------------------
(* GenericSearch.solve *)

\* heuristic_num = int(self.strategy[2]) if len(self.strategy) > 2 else 1
HeuristicNumRaises(strategy) == Len(strategy) > 2 /\ ~IsDigit(strategy[3])

HeuristicNum(strategy) == IF Len(strategy) > 2 THEN IntOf(strategy[3]) ELSE 1

solve(P, s) ==
    LET start_state == get_start_state(P)
        informed == startswith(s.strategy, <<"G", "R">>)
                        \/ startswith(s.strategy, <<"A", "S">>)
        start_node == Node(start_state, NoneNode, "", 0, 0,
                           IF informed
                           THEN calculate_heuristic(P, s.heuristic_name, start_state)
                           ELSE 0)
    IN  IF s.strategy = BF THEN breadth_first_search(P, s, start_node)
        ELSE IF s.strategy = DF
        THEN depth_first_search([s EXCEPT !.pc = "DF"], start_node, Infinity)
        ELSE IF s.strategy = ID THEN iterative_deepening_search(s, start_node)
        ELSE IF s.strategy = UC THEN uniform_cost_search(P, s, start_node)
        ELSE IF startswith(s.strategy, <<"G", "R">>)
        THEN IF HeuristicNumRaises(s.strategy) THEN Raise(s)
             ELSE greedy_search(P, s, start_node, HeuristicNum(s.strategy))
        ELSE IF startswith(s.strategy, <<"A", "S">>)
        THEN IF HeuristicNumRaises(s.strategy) THEN Raise(s)
             ELSE a_star_search(P, s, start_node, HeuristicNum(s.strategy))
        ELSE Raise(s)

\* the step the running search takes next
Step(G, P, s) ==
    CASE s.pc = "init" -> solve(P, s)
      [] s.pc = "BF" -> BreadthFirstLoop(G, P, s)
      [] s.pc \in {"DF", "ID"} -> DepthFirstLoop(G, P, s)
      [] s.pc = "UC" -> UniformCostLoop(G, P, s)
      [] s.pc = "GR" -> GreedyLoop(G, P, s)
      [] s.pc = "AS" -> AStarLoop(G, P, s)
      [] OTHER -> s

\* at most n steps of the running search, stopping where solve() returns or
\* raises (the steps are taken in halves so that a long run nests shallowly)
RECURSIVE RunSteps(_, _, _, _)
RunSteps(G, P, s, n) ==
    IF s.pc \in {"done", "error"} THEN s
    ELSE IF n = 1 THEN Step(G, P, s)
    ELSE RunSteps(G, P, RunSteps(G, P, s, n \div 2), n - (n \div 2))

RECURSIVE RunFrom(_, _, _, _)
RunFrom(G, P, s, n) ==
    IF s.pc \in {"done", "error"} THEN s
    ELSE RunFrom(G, P, RunSteps(G, P, s, n), 2 * n)

\* the steps of the search taken until solve() returns or raises
RunToEnd(G, P, s) == RunFrom(G, P, s, 1)

\* DeliverySearch.path / analyze_single_delivery: a new problem and a new
\* search object per call
SolveWith(G, P, strategy) ==
    RunToEnd(G, P, GenericSearch(strategy, "manhattan")).result

----------------------------------------------------------------------------
(* The grids, problems and search objects a run starts from *)

Cells(m, n) == {Position(x, y) : x \in 0..(m - 1), y \in 0..(n - 1)}

GridEdges(m, n) ==
    {Edge(p, q) : <<p, q>> \in
        {pq \in Cells(m, n) \X Cells(m, n) : manhattan_distance(pq[1], pq[2]) = 1}}

\* set_traffic on the segments of the grid: levels 0..MaxTraffic with at most
\* MaxHeavy segments above level 1 and at most MaxBlocked segments blocked, or
\* one segment never set and none blocked, or every segment at a level of
\* 2..MaxTraffic
TrafficMaps(m, n) ==
    LET E == GridEdges(m, n)
    IN  UNION {
          {t \in [E \ U -> 0..MaxTraffic] :
              /\ Cardinality({e \in E \ U : t[e] = 0})
                     <= (IF U = {} THEN MaxBlocked ELSE 0)
              /\ Cardinality({e \in E \ U : t[e] > 1}) <= MaxHeavy}
          : U \in {V \in SUBSET E : Cardinality(V) <= 1} }
        \cup [E -> 2..MaxTraffic]

\* the store stands on the first cell of the grid
StoreCells(m, n) == {Position(0, 0)}

\* the tunnel maps that at most k add_tunnel calls on distinct positions build
RECURSIVE TunnelMaps(_, _, _)
TunnelMaps(m, n, k) ==
    IF k = 0 THEN {<<>>}
    ELSE LET prev == TunnelMaps(m, n, k - 1)
         IN  prev \cup
             {add_tunnel([tunnels |-> t], p, q).tunnels :
                 <<t, p, q>> \in {x \in prev \X Cells(m, n) \X Cells(m, n) : x[2] # x[3]}}

Grid(m, n, stores, customers, traffic, tunnels) ==
    [m |-> m, n |-> n, stores |-> stores, customers |-> customers,
     traffic |-> traffic, tunnels |-> tunnels]

DeliveryProblem(start_pos, goal_pos) ==
    [start_pos |-> start_pos, goal_pos |-> goal_pos]

\* identifiers that are none of the eight strategies
UnknownStrategies ==
    {<<"G", "R">>, <<"A", "S", "3">>, <<"A", "S", "x">>, <<"X", "X">>, <<"b", "f">>}

NoPlan == [pc |-> "none"]

InitGrid ==
    \E store \in StoreCells(GridM, GridN), customer \in Cells(GridM, GridN),
       traffic \in TrafficMaps(GridM, GridN),
       tunnels \in TunnelMaps(GridM, GridN, MaxTunnels) :
        /\ grid = Grid(GridM, GridN, <<store>>, <<customer>>, traffic, tunnels)
        /\ problem = DeliveryProblem(store, customer)

Init ==
    /\ InitGrid
    /\ \E strategy \in KnownStrategies \cup UnknownStrategies :
           search = GenericSearch(strategy, "manhattan")
    /\ runs = <<<<>>>>
    /\ plan = NoPlan
    /\ tick = 0

\* the search object after a step, and the triple recorded when solve() returns
Advance(s) ==
    /\ search' = s
    /\ runs' = IF s.pc = "done"
                THEN [runs EXCEPT ![Len(runs)] = Append(@, s.result)]
                ELSE runs
    /\ tick' = 1 - tick
    /\ UNCHANGED <<grid, problem, plan>>

Solve ==
    /\ search.pc = "init"
    /\ Advance(solve(problem, search))

BreadthFirstStep ==
    /\ search.pc = "BF"
    /\ Advance(BreadthFirstLoop(grid, problem, search))

DepthFirstStep ==
    /\ search.pc = "DF"
    /\ Advance(DepthFirstLoop(grid, problem, search))

IterativeDeepeningStep ==
    /\ search.pc = "ID"
    /\ Advance(DepthFirstLoop(grid, problem, search))

UniformCostStep ==
    /\ search.pc = "UC"
    /\ Advance(UniformCostLoop(grid, problem, search))

GreedyStep ==
    /\ search.pc = "GR"
    /\ Advance(GreedyLoop(grid, problem, search))

AStarStep ==
    /\ search.pc = "AS"
    /\ Advance(AStarLoop(grid, problem, search))

SearchNext ==
    \/ Solve
    \/ BreadthFirstStep
    \/ DepthFirstStep
    \/ IterativeDeepeningStep
    \/ UniformCostStep
    \/ GreedyStep
    \/ AStarStep

Next == SearchNext

Spec == Init /\ [][Next]_vars

\* the solve() calls that have returned
RECURSIVE Returned(_)
Returned(rs) == IF rs = <<>> THEN 0 ELSE Len(Head(rs)) + Returned(Tail(rs))

\* DeliverySearch.path makes a new GenericSearch for every call
NewSearchObject(s) == GenericSearch(s.strategy, s.heuristic_name)

\* DeliverySearch.path is called again for the same grid, pair and strategy
NewSearch ==
    /\ search.pc = "done"
    /\ Returned(runs) < MaxRuns
    /\ search' = NewSearchObject(search)
    /\ runs' = Append(runs, <<>>)
    /\ tick' = 1 - tick
    /\ UNCHANGED <<grid, problem, plan>>

\* solve() is called again on the object that has returned
SolveAgain ==
    /\ search.pc = "done"
    /\ Returned(runs) < MaxRuns
    /\ search' = [search EXCEPT !.pc = "init"]
    /\ tick' = 1 - tick
    /\ UNCHANGED <<grid, problem, runs, plan>>

RerunNext == Next \/ NewSearch \/ SolveAgain

RerunSpec == Init /\ [][RerunNext]_vars

Terminated == search.pc \in {"done", "error"}

\* the calling thread executes its next step
ThreadStep == ~Terminated /\ tick' = 1 - tick

\* solve() runs in the calling thread, which keeps executing until solve()
\* returns or raises: a pass that leaves the object as it was is still a pass
FairSpec == Spec /\ WF_tick(ThreadStep)

----------------------------------------------------------------------------
(* Delivery/Delivery_planner.py: the analysis of all pairs *)

\* ",".join(actions)
RECURSIVE Join(_)
Join(actions) ==
    IF Len(actions) <= 1 THEN actions
    ELSE <<Head(actions), ",">> \o Join(Tail(actions))

\* `if actions`: neither None nor the empty list
Truthy(actions) == actions # NonePath /\ actions # <<>>

analyze_single_delivery(G, store, customer, strategy) ==
    LET r == SolveWith(G, DeliveryProblem(store, customer), strategy)
    IN  [store |-> store, customer |-> customer, strategy |-> strategy,
         plan |-> IF Truthy(r.path) THEN Join(r.path) ELSE <<"NO_PATH">>,
         cost |-> r.cost,
         nodes_expanded |-> r.nodes_expanded,
         path_found |-> r.path # NonePath,
         path_length |-> IF Truthy(r.path) THEN Len(r.path) ELSE 0,
         manhattan_distance |-> manhattan_distance(store, customer)]

\* the entry of pairwise_analysis for store_idx and customer_idx (0-based);
\* metrics_by_strategy is in the order of self.strategies
PairData(G, store_idx, customer_idx) ==
    LET store == G.stores[store_idx + 1]
        customer == G.customers[customer_idx + 1]
    IN  [store |-> store, customer |-> customer,
         store_idx |-> store_idx, customer_idx |-> customer_idx,
         manhattan_distance |-> manhattan_distance(store, customer),
         metrics_by_strategy |->
             [i \in 1..Len(strategies) |->
                 analyze_single_delivery(G, store, customer, strategies[i])]]

\* pairwise_analysis in insertion order: stores outer, customers inner
PairwiseAnalysis(G) ==
    [i \in 1..(Len(G.stores) * Len(G.customers)) |->
        PairData(G, (i - 1) \div Len(G.customers), (i - 1) % Len(G.customers))]

\* grid_info; the empty dict when the grid has no store or no customer
NoGridInfo == [empty |-> TRUE]

GridInfo(G) ==
    [dimensions |-> <<G.m, G.n>>, stores |-> G.stores, customers |-> G.customers,
     store_count |-> Len(G.stores), customer_count |-> Len(G.customers)]

----------------------------------------------------------------------------
(* Delivery/Delivery_planner.py: the assignments *)

NoneStrategy == <<"N", "o", "n", "e">>

NoneCandidate == [none |-> TRUE]

\* the loop over metrics_by_strategy that keeps the first cheapest found path
RECURSIVE MinCostStrategy(_, _, _, _)
MinCostStrategy(metrics, i, min_cost, best_strategy) ==
    IF i > Len(metrics)
    THEN [min_cost |-> min_cost, best_strategy |-> best_strategy]
    ELSE IF metrics[i].path_found /\ metrics[i].cost < min_cost
    THEN MinCostStrategy(metrics, i + 1, metrics[i].cost, metrics[i].strategy)
    ELSE MinCostStrategy(metrics, i + 1, min_cost, best_strategy)

\* candidate_assignments of balanced_cost_assignment, before the sort
RECURSIVE CandidateAssignments(_, _)
CandidateAssignments(pairs, i) ==
    IF i > Len(pairs) THEN <<>>
    ELSE LET best == MinCostStrategy(pairs[i].metrics_by_strategy, 1,
                                     Infinity, NoneStrategy)
         IN  (IF best.min_cost < Infinity
              THEN <<[store_idx |-> pairs[i].store_idx,
                      customer_idx |-> pairs[i].customer_idx,
                      cost |-> best.min_cost,
                      strategy |-> best.best_strategy]>>
              ELSE <<>>) \o CandidateAssignments(pairs, i + 1)

\* CandidatesForStrategy without the test of path_found
RECURSIVE CandidatesForStrategy_unfound(_, _, _)
CandidatesForStrategy_unfound(pairs, search_strategy, i) ==
    IF i > Len(pairs) THEN <<>>
    ELSE LET metrics == pairs[i].metrics_by_strategy
             found == {j \in 1..Len(metrics) : metrics[j].strategy = search_strategy}
         IN  (IF found # {}
              THEN <<[store_idx |-> pairs[i].store_idx,
                      customer_idx |-> pairs[i].customer_idx,
                      cost |-> metrics[CHOOSE j \in found : TRUE].cost,
                      strategy |-> search_strategy]>>
              ELSE <<>>)
                 \o CandidatesForStrategy_unfound(pairs, search_strategy, i + 1)

\* candidates of _balanced_assignment_for_strategy, before the sort
RECURSIVE CandidatesForStrategy(_, _, _)
CandidatesForStrategy(pairs, search_strategy, i) ==
    IF i > Len(pairs) THEN <<>>
    ELSE LET metrics == pairs[i].metrics_by_strategy
             found == {j \in 1..Len(metrics) :
                          metrics[j].strategy = search_strategy
                              /\ metrics[j].path_found}
         IN  (IF found # {}
              THEN <<[store_idx |-> pairs[i].store_idx,
                      customer_idx |-> pairs[i].customer_idx,
                      cost |-> metrics[CHOOSE j \in found : TRUE].cost,
                      strategy |-> search_strategy]>>
              ELSE <<>>) \o CandidatesForStrategy(pairs, search_strategy, i + 1)

\* list.sort(key=cost): stable, an element goes behind the elements that do
\* not cost more
RECURSIVE InsertByCost(_, _)
InsertByCost(sorted, x) ==
    IF sorted = <<>> THEN <<x>>
    ELSE IF x.cost < Head(sorted).cost THEN <<x>> \o sorted
    ELSE <<Head(sorted)>> \o InsertByCost(Tail(sorted), x)

RECURSIVE SortByCost(_)
SortByCost(seq) ==
    IF seq = <<>> THEN <<>>
    ELSE InsertByCost(SortByCost(SubSeq(seq, 1, Len(seq) - 1)), seq[Len(seq)])

\* min(store_loads)
MinLoad(store_loads) == MinOf({store_loads[j] : j \in 1..Len(store_loads)})

\* the constraint that compares the load before the assignment
Admits_load_before(store_loads, store_idx, max_load_diff) ==
    store_loads[store_idx + 1] <= MinLoad(store_loads) + max_load_diff

\* the load balance constraint of the first pass
Admits(store_loads, store_idx, max_load_diff) ==
    store_loads[store_idx + 1] + 1 <= MinLoad(store_loads) + max_load_diff

\* the flag is left as it was
MarkAssigned_never(customer_assigned, customer_idx) == customer_assigned

\* customer_assigned[customer_idx] = True
MarkAssigned(customer_assigned, customer_idx) ==
    [customer_assigned EXCEPT ![customer_idx + 1] = TRUE]

Assignment(cand) ==
    [store_idx |-> cand.store_idx, customer_idx |-> cand.customer_idx,
     cost |-> cand.cost, strategy |-> cand.strategy]

\* the fallback pass finds no candidate
Cheapest_none(candidates, customer_idx, i, cheapest) == NoneCandidate

\* the loop of the fallback pass over the candidates of one customer
RECURSIVE Cheapest(_, _, _, _)
Cheapest(candidates, customer_idx, i, cheapest) ==
    IF i > Len(candidates) THEN cheapest
    ELSE IF candidates[i].customer_idx = customer_idx
            /\ (cheapest = NoneCandidate \/ candidates[i].cost < cheapest.cost)
    THEN Cheapest(candidates, customer_idx, i + 1, candidates[i])
    ELSE Cheapest(candidates, customer_idx, i + 1, cheapest)

balanced_cost == "balanced_cost_assignment"

balanced_for_strategy == "_balanced_assignment_for_strategy"

\* balanced_cost_assignment and _balanced_assignment_for_strategy up to their
\* first loop: the lookup of the counts raises KeyError on an empty grid_info
BalancedStart(analysis_data, method, search_strategy, max_load_diff) ==
    IF analysis_data.grid_info = NoGridInfo
    THEN [pc |-> "error", analysis_data |-> analysis_data, method |-> method,
          search_strategy |-> search_strategy, max_load_diff |-> max_load_diff]
    ELSE
    LET pairs == analysis_data.pairwise_analysis
    IN  [pc |-> "first_pass", analysis_data |-> analysis_data, method |-> method,
         search_strategy |-> search_strategy, max_load_diff |-> max_load_diff,
         candidates |-> SortByCost(
             IF method = balanced_cost THEN CandidateAssignments(pairs, 1)
             ELSE CandidatesForStrategy(pairs, search_strategy, 1)),
         i |-> 1, customer_idx |-> 0,
         store_loads |-> [j \in 1..analysis_data.grid_info.store_count |-> 0],
         customer_assigned |->
             [j \in 1..analysis_data.grid_info.customer_count |-> FALSE],
         assignments |-> <<>>, total_cost |-> 0]

\* one pass of the loop over the sorted candidates (or the move to the loop
\* over the customers)
FirstPassLoop(a) ==
    IF a.i > Len(a.candidates) THEN [a EXCEPT !.pc = "fallback", !.customer_idx = 0]
    ELSE
    LET cand == a.candidates[a.i]
    IN  IF a.customer_assigned[cand.customer_idx + 1] THEN [a EXCEPT !.i = a.i + 1]
        ELSE IF Admits(a.store_loads, cand.store_idx, a.max_load_diff)
        THEN [a EXCEPT !.i = a.i + 1,
                       !.store_loads[cand.store_idx + 1] = @ + 1,
                       !.customer_assigned = MarkAssigned(@, cand.customer_idx),
                       !.assignments = Append(@, Assignment(cand)),
                       !.total_cost = @ + cand.cost]
        ELSE [a EXCEPT !.i = a.i + 1]

\* one pass of the loop over the customers (or the return after it)
FallbackLoop(a) ==
    IF a.customer_idx >= Len(a.customer_assigned) THEN [a EXCEPT !.pc = "done"]
    ELSE IF a.customer_assigned[a.customer_idx + 1]
    THEN [a EXCEPT !.customer_idx = a.customer_idx + 1]
    ELSE
    LET cheapest == Cheapest(a.candidates, a.customer_idx, 1, NoneCandidate)
    IN  IF cheapest = NoneCandidate THEN [a EXCEPT !.customer_idx = a.customer_idx + 1]
        ELSE [a EXCEPT !.customer_idx = a.customer_idx + 1,
                       !.store_loads[cheapest.store_idx + 1] = @ + 1,
                       !.assignments = Append(@, Assignment(cheapest)),
                       !.total_cost = @ + cheapest.cost]

BalancedStep(a) ==
    CASE a.pc = "first_pass" -> FirstPassLoop(a)
      [] a.pc = "fallback" -> FallbackLoop(a)
      [] OTHER -> a

RECURSIVE BalancedToEnd(_)
BalancedToEnd(a) ==
    IF a.pc \in {"done", "error"} THEN a ELSE BalancedToEnd(BalancedStep(a))

\* the loop of _pure_cost_assignment_for_strategy over the pairs of a customer
RECURSIVE BestStore(_, _, _, _, _, _)
BestStore(pairs, customer_idx, search_strategy, i, best_store, best_cost) ==
    IF i > Len(pairs) THEN [best_store |-> best_store, best_cost |-> best_cost]
    ELSE
    LET metrics == pairs[i].metrics_by_strategy
        better == {j \in 1..Len(metrics) :
                      /\ pairs[i].customer_idx = customer_idx
                      /\ metrics[j].strategy = search_strategy
                      /\ metrics[j].path_found /\ metrics[j].cost < best_cost}
    IN  IF better # {}
        THEN BestStore(pairs, customer_idx, search_strategy, i + 1,
                       pairs[i].store_idx, metrics[CHOOSE j \in better : TRUE].cost)
        ELSE BestStore(pairs, customer_idx, search_strategy, i + 1,
                       best_store, best_cost)

RECURSIVE PureAssignments(_, _, _)
PureAssignments(analysis_data, search_strategy, customer_idx) ==
    IF customer_idx >= analysis_data.grid_info.customer_count THEN <<>>
    ELSE LET best == BestStore(analysis_data.pairwise_analysis, customer_idx,
                               search_strategy, 1, NoneLevel, Infinity)
         IN  (IF best.best_store # NoneLevel
              THEN <<[store_idx |-> best.best_store, customer_idx |-> customer_idx,
                      cost |-> best.best_cost, strategy |-> search_strategy]>>
              ELSE <<>>) \o PureAssignments(analysis_data, search_strategy,
                                            customer_idx + 1)

RECURSIVE TotalCost(_)
TotalCost(assignments) ==
    IF assignments = <<>> THEN 0
    ELSE Head(assignments).cost + TotalCost(Tail(assignments))

\* returns (assignments, total_cost)
pure_cost_assignment_for_strategy(analysis_data, search_strategy) ==
    LET assignments == PureAssignments(analysis_data, search_strategy, 0)
    IN  <<assignments, TotalCost(assignments)>>

\* the first found path is kept, whatever a later one costs
Better_first_found(cost, best_cost) == best_cost = Infinity

\* metrics['cost'] < best_cost
Better(cost, best_cost) == cost < best_cost

\* pure_cost_optimal_assignment: the loop over the strategies of one pair
RECURSIVE BestOverStrategies(_, _, _, _)
BestOverStrategies(metrics, store_idx, j, best) ==
    IF j > Len(metrics) THEN best
    ELSE IF metrics[j].path_found /\ Better(metrics[j].cost, best.best_cost)
    THEN BestOverStrategies(metrics, store_idx, j + 1,
             [best_store |-> store_idx, best_cost |-> metrics[j].cost,
              best_strategy |-> metrics[j].strategy])
    ELSE BestOverStrategies(metrics, store_idx, j + 1, best)

\* pure_cost_optimal_assignment: the loop over the pairs for one customer
RECURSIVE BestOverPairs(_, _, _, _)
BestOverPairs(pairs, customer_idx, i, best) ==
    IF i > Len(pairs) THEN best
    ELSE IF pairs[i].customer_idx = customer_idx
    THEN BestOverPairs(pairs, customer_idx, i + 1,
             BestOverStrategies(pairs[i].metrics_by_strategy, pairs[i].store_idx,
                                1, best))
    ELSE BestOverPairs(pairs, customer_idx, i + 1, best)

\* pure_cost_optimal_assignment: the loop over the customers, with the
\* assignments and the total cost collected so far
RECURSIVE PureOptimalLoop(_, _, _, _)
PureOptimalLoop(analysis_data, customer_idx, assignments, total_cost) ==
    IF customer_idx >= analysis_data.grid_info.customer_count
    THEN [assignments |-> assignments, total_cost |-> total_cost]
    ELSE
    LET best == BestOverPairs(analysis_data.pairwise_analysis, customer_idx, 1,
                    [best_store |-> NoneLevel, best_cost |-> Infinity,
                     best_strategy |-> NoneStrategy])
    IN  IF best.best_store # NoneLevel
        THEN PureOptimalLoop(analysis_data, customer_idx + 1,
                 Append(assignments,
                     [store_idx |-> best.best_store, customer_idx |-> customer_idx,
                      cost |-> best.best_cost, strategy |-> best.best_strategy]),
                 total_cost + best.best_cost)
        ELSE PureOptimalLoop(analysis_data, customer_idx + 1, assignments, total_cost)

pure_cost_optimal == "pure_cost_optimal_assignment"

\* returns (assignments, total_cost); the lookup of customer_count raises
\* KeyError on an empty grid_info
pure_cost_optimal_assignment(analysis_data) ==
    IF analysis_data.grid_info = NoGridInfo
    THEN [pc |-> "error", analysis_data |-> analysis_data,
          method |-> pure_cost_optimal]
    ELSE LET r == PureOptimalLoop(analysis_data, 0, <<>>, 0)
         IN  [pc |-> "pure_done", analysis_data |-> analysis_data,
              method |-> pure_cost_optimal,
              assignments |-> r.assignments, total_cost |-> r.total_cost]

compare_strategies == "compare_assignment_strategies"

\* store_loads1 = [0] * store_count, then one increment per assignment
CountLoads(assignments, store_count) ==
    [k \in 1..store_count |->
        Cardinality({j \in 1..Len(assignments) : assignments[j].store_idx = k - 1})]

\* the three results compared; the KeyError of the first call, on an empty
\* grid_info, leaves the method
compare_assignment_strategies(analysis_data) ==
    LET pure == pure_cost_optimal_assignment(analysis_data)
    IN  IF pure.pc = "error"
        THEN [pc |-> "error", analysis_data |-> analysis_data,
              method |-> compare_strategies]
        ELSE
        LET balanced1 == BalancedToEnd(
                BalancedStart(analysis_data, balanced_cost, NoneStrategy, 1))
            balanced2 == BalancedToEnd(
                BalancedStart(analysis_data, balanced_cost, NoneStrategy, 2))
        IN  [pc |-> "compared", analysis_data |-> analysis_data,
             method |-> compare_strategies,
             pure_cost |-> [assignments |-> pure.assignments,
                            cost |-> pure.total_cost,
                            loads |-> CountLoads(pure.assignments,
                                         analysis_data.grid_info.store_count)],
             balanced_1 |-> [assignments |-> balanced1.assignments,
                             cost |-> balanced1.total_cost,
                             loads |-> balanced1.store_loads],
             balanced_2 |-> [assignments |-> balanced2.assignments,
                             cost |-> balanced2.total_cost,
                             loads |-> balanced2.store_loads]]

\* _calculate_store_loads: a list as long as the largest assigned store index
calculate_store_loads(assignments) ==
    IF assignments = <<>> THEN <<>>
    ELSE LET max_store_idx ==
                 -MinOf({-assignments[j].store_idx : j \in 1..Len(assignments)})
         IN  [k \in 1..(max_store_idx + 1) |->
                 Cardinality({j \in 1..Len(assignments) :
                                 assignments[j].store_idx = k - 1})]

\* the entry of assignments_by_strategy for one strategy
AssignmentsFor(analysis_data, strategy) ==
    LET pure == pure_cost_assignment_for_strategy(analysis_data, strategy)
        balanced == BalancedToEnd(
                        BalancedStart(analysis_data, balanced_for_strategy, strategy, 1))
    IN  [strategy |-> strategy,
         pure_cost |-> [assignments |-> pure[1], total_cost |-> pure[2],
                        store_loads |-> calculate_store_loads(pure[1]),
                        customer_count |-> Len(pure[1])],
         balanced |-> [assignments |-> balanced.assignments,
                       total_cost |-> balanced.total_cost,
                       store_loads |-> balanced.store_loads,
                       customer_count |-> Len(balanced.assignments)]]

\* analysis_data with assignments_by_strategy added, in the order of
\* self.strategies
WithAssignments(analysis_data) ==
    [grid_info |-> analysis_data.grid_info,
     pairwise_analysis |-> analysis_data.pairwise_analysis,
     assignments_by_strategy |->
         [i \in 1..Len(strategies) |-> AssignmentsFor(analysis_data, strategies[i])]]

analyze_all_pairs(G) ==
    IF G.stores = <<>> \/ G.customers = <<>>
    THEN [grid_info |-> NoGridInfo, pairwise_analysis |-> <<>>]
    ELSE CHOOSE r \in
             {WithAssignments(d) :
                 d \in {[grid_info |-> GridInfo(G),
                         pairwise_analysis |-> PairwiseAnalysis(G)]}} : TRUE

----------------------------------------------------------------------------
(* The planner at work: a grid with stores and customers is analysed, then a *)
(* load-balanced assignment is computed from the analysis                    *)

\* the cells of the grid in row order
CellSeq(m, n) == [i \in 1..(m * n) |-> Position((i - 1) \div n, (i - 1) % n)]

\* add_store on the first k cells
StoresOn(m, n, k) == SubSeq(CellSeq(m, n), 1, k)

\* add_customer on the last k cells, the last cell first
CustomersOn(m, n, k) == [i \in 1..k |-> CellSeq(m, n)[m * n + 1 - i]]

NoProblem == [none |-> TRUE]

NoSearch == [pc |-> "none"]

\* a grid without tunnels, with up to MaxStores stores and MaxCustomers customers
InitPlanner ==
    /\ \E traffic \in TrafficMaps(GridM, GridN),
          s \in 0..MaxStores, c \in 0..MaxCustomers :
           grid = Grid(GridM, GridN, StoresOn(GridM, GridN, s),
                       CustomersOn(GridM, GridN, c), traffic, <<>>)
    /\ problem = NoProblem
    /\ search = NoSearch
    /\ runs = <<>>
    /\ plan = NoPlan
    /\ tick = 0

PlannerStep(p) ==
    /\ plan' = p
    /\ tick' = 1 - tick
    /\ UNCHANGED <<grid, problem, search, runs>>

AnalyzeAllPairs ==
    /\ plan.pc = "none"
    /\ PlannerStep([pc |-> "analyzed", analysis_data |-> analyze_all_pairs(grid)])

\* the values a caller passes as max_load_diff: a negative one admits nothing
LoadDiffs == (-1)..MaxLoadDiff

BalancedCostAssignment ==
    /\ plan.pc = "analyzed"
    /\ \E max_load_diff \in LoadDiffs :
           PlannerStep(BalancedStart(plan.analysis_data, balanced_cost,
                                     NoneStrategy, max_load_diff))

BalancedAssignmentForStrategy ==
    /\ plan.pc = "analyzed"
    /\ \E search_strategy \in KnownStrategies, max_load_diff \in LoadDiffs :
           PlannerStep(BalancedStart(plan.analysis_data, balanced_for_strategy,
                                     search_strategy, max_load_diff))

PureCostOptimalAssignment ==
    /\ plan.pc = "analyzed"
    /\ PlannerStep(pure_cost_optimal_assignment(plan.analysis_data))

CompareAssignmentStrategies ==
    /\ plan.pc = "analyzed"
    /\ PlannerStep(compare_assignment_strategies(plan.analysis_data))

FirstPassStep ==
    /\ plan.pc = "first_pass"
    /\ PlannerStep(FirstPassLoop(plan))

FallbackStep ==
    /\ plan.pc = "fallback"
    /\ PlannerStep(FallbackLoop(plan))

PlannerNext ==
    \/ AnalyzeAllPairs
    \/ PureCostOptimalAssignment
    \/ CompareAssignmentStrategies
    \/ BalancedCostAssignment
    \/ BalancedAssignmentForStrategy
    \/ FirstPassStep
    \/ FallbackStep

PlannerSpec == InitPlanner /\ [][PlannerNext]_vars

----------------------------------------------------------------------------
(* Two searches on one Grid, each with its own DeliveryProblem and           *)
(* GenericSearch object, their steps interleaved in any order: search and    *)
(* problem hold the two objects                                              *)

\* the strategies of the two searches: iterative deepening, which takes its
\* DepthCap passes on an unreachable customer, runs as the first search
\* next to A*
PairStrategies ==
    {st \in KnownStrategies \X KnownStrategies :
        st[2] # ID /\ (st[1] = ID => st[2] = AS1)}

InitPair ==
    /\ \E store \in StoreCells(GridM, GridN),
          customer1 \in Cells(GridM, GridN),
          customer2 \in {Position(GridM - 1, GridN - 1)},
          traffic \in TrafficMaps(GridM, GridN),
          st \in PairStrategies :
           /\ grid = Grid(GridM, GridN, <<store>>, <<customer1, customer2>>,
                          traffic, <<>>)
           /\ problem = <<DeliveryProblem(store, customer1),
                          DeliveryProblem(store, customer2)>>
           /\ search = <<GenericSearch(st[1], "manhattan"),
                         GenericSearch(st[2], "manhattan")>>
    /\ runs = <<>>
    /\ plan = NoPlan
    /\ tick = 0

\* both searches are handed the DeliveryProblem of the first
StepOf_shared_problem(i) ==
    /\ search[i].pc \notin {"done", "error"}
    /\ search' = [search EXCEPT ![i] = Step(grid, problem[1], search[i])]
    /\ tick' = 1 - tick
    /\ UNCHANGED <<grid, problem, runs, plan>>

\* the next step of the i-th search: it reads the Grid through its own
\* problem and writes its own object only
StepOf(i) ==
    /\ search[i].pc \notin {"done", "error"}
    /\ search' = [search EXCEPT ![i] = Step(grid, problem[i], search[i])]
    /\ tick' = 1 - tick
    /\ UNCHANGED <<grid, problem, runs, plan>>

StepFirst == StepOf(1)

StepSecond == StepOf(2)

PairNext == StepFirst \/ StepSecond

PairSpec == InitPair /\ [][PairNext]_vars

----------------------------------------------------------------------------
(* A caller replays a list of actions with get_cost_of_actions *)

\* the strings a caller passes as actions: the five actions and another word
ReplayActions == {"up", "down", "left", "right", "tunnel", "jump"}

RECURSIVE ActionLists(_)
ActionLists(n) ==
    IF n = 0 THEN {<<>>}
    ELSE ActionLists(n - 1)
         \cup {Append(a, x) : <<a, x>> \in
                  {ax \in ActionLists(n - 1) \X ReplayActions : Len(ax[1]) = n - 1}}

\* a grid with its store, the customer on the last cell, and a list of at
\* most MaxActions actions to replay
InitReplay ==
    /\ \E store \in StoreCells(GridM, GridN),
          traffic \in TrafficMaps(GridM, GridN),
          tunnels \in TunnelMaps(GridM, GridN, MaxTunnels),
          actions \in ActionLists(MaxActions) :
           /\ grid = Grid(GridM, GridN, <<store>>,
                          <<Position(GridM - 1, GridN - 1)>>, traffic, tunnels)
           /\ problem = DeliveryProblem(store, Position(GridM - 1, GridN - 1))
           /\ plan = [pc |-> "replay", actions |-> actions]
    /\ search = NoSearch
    /\ runs = <<>>
    /\ tick = 0

GetCostOfActions ==
    /\ plan.pc = "replay"
    /\ PlannerStep([pc |-> "replayed", actions |-> plan.actions,
                    cost |-> get_cost_of_actions(grid, problem, plan.actions)])

ReplayNext == GetCostOfActions

ReplaySpec == InitReplay /\ [][ReplayNext]_vars

----------------------------------------------------------------------------
(* A grid is built: add_tunnel is called for one pair of positions after     *)
(* another, as the parser does with the pairs the generator drew             *)

\* Grid(m, n) with its traffic set and no tunnel yet
InitBuild ==
    /\ \E traffic \in TrafficMaps(GridM, GridN) :
           grid = Grid(GridM, GridN, <<>>, <<>>, traffic, <<>>)
    /\ problem = NoProblem
    /\ search = NoSearch
    /\ runs = <<>>
    /\ plan = [pc |-> "building", add_tunnel_calls |-> 0]
    /\ tick = 0

\* one call of add_tunnel, on two different positions
AddTunnel ==
    /\ plan.pc = "building"
    /\ plan.add_tunnel_calls < MaxAddTunnel
    /\ \E entrance1, entrance2 \in Cells(grid.m, grid.n) :
           /\ entrance1 # entrance2
           /\ grid' = add_tunnel(grid, entrance1, entrance2)
    /\ plan' = [plan EXCEPT !.add_tunnel_calls = @ + 1]
    /\ tick' = 1 - tick
    /\ UNCHANGED <<problem, search, runs>>

BuildNext == AddTunnel

BuildSpec == InitBuild /\ [][BuildNext]_vars

----------------------------------------------------------------------------
(* Breadth-first search and iterative deepening on a wider grid: every       *)
(* segment at level 1 or blocked, so that a state has a short and a long way *)
(* to it                                                                     *)

\* set_traffic with level 1 on every segment but at most WideBlocked blocked
WideTrafficMaps(m, n) ==
    {t \in [GridEdges(m, n) -> 0..1] :
        Cardinality({e \in GridEdges(m, n) : t[e] = 0}) <= WideBlocked}

InitWide ==
    /\ \E customer \in Cells(WideM, WideN),
          traffic \in WideTrafficMaps(WideM, WideN),
          tunnels \in TunnelMaps(WideM, WideN, MaxTunnels) :
           /\ grid = Grid(WideM, WideN, <<Position(0, 0)>>, <<customer>>,
                          traffic, tunnels)
           /\ problem = DeliveryProblem(Position(0, 0), customer)
    /\ \E strategy \in {BF, ID} : search = GenericSearch(strategy, "manhattan")
    /\ runs = <<<<>>>>
    /\ plan = NoPlan
    /\ tick = 0

WideNext ==
    \/ Solve
    \/ BreadthFirstStep
    \/ IterativeDeepeningStep

WideSpec == InitWide /\ [][WideNext]_vars

----------------------------------------------------------------------------
(* What the grid allows, stated from the Grid alone *)

\* the moves the grid allows at position p, as <<action, target, cost>>: a step
\* to an in-bounds neighbour over a segment with a defined level >= 1, or the
\* tunnel that starts at p
LegalMoves(G, p) ==
    {<<directions[i][1], q, G.traffic[Edge(p, q)]>> :
        <<i, q>> \in {iq \in (1..4) \X Cells(G.m, G.n) :
            /\ iq[2] = Position(p[1] + directions[iq[1]][2][1],
                                p[2] + directions[iq[1]][2][2])
            /\ Edge(p, iq[2]) \in DOMAIN G.traffic
            /\ G.traffic[Edge(p, iq[2])] >= 1}}
    \cup (IF p \in DOMAIN G.tunnels
          THEN {<<"tunnel", G.tunnels[p], manhattan_distance(p, G.tunnels[p])>>}
          ELSE {})

\* every legal move of the grid, as <<position, <<action, target, cost>>>>
AllMoves(G) ==
    UNION {{<<u, mv>> : mv \in LegalMoves(G, u)} : u \in Cells(G.m, G.n)}

\* the cost recorded for cell v in a set of <<cell, cost>> pairs
CostAt(d, v) == (CHOOSE pr \in d : pr[1] = v)[2]

\* one round of relaxation over all legal moves
RelaxOnce(G, d) ==
    {<<v, MinOf({CostAt(d, v)} \cup
                {CostAt(d, um[1]) + um[2][3] :
                    um \in {x \in AllMoves(G) :
                               x[2][2] = v /\ CostAt(d, x[1]) < Infinity}})>>
        : v \in Cells(G.m, G.n)}

RECURSIVE RelaxRounds(_, _, _)
RelaxRounds(G, d, k) == IF k = 0 THEN d ELSE RelaxRounds(G, RelaxOnce(G, d), k - 1)

\* the cheapest cost of a legal action sequence from the start to the goal
\* (Infinity: there is none); a cheapest sequence visits no cell twice
OptimalCost(G, P) ==
    CostAt(RelaxRounds(G,
               {<<v, IF v = P.start_pos THEN 0 ELSE Infinity>> : v \in Cells(G.m, G.n)},
               G.m * G.n),
           P.goal_pos)

Reachable(G, P) == OptimalCost(G, P) < Infinity

\* the plan is legal from position p and ends at the goal
RECURSIVE LegalPlanFrom(_, _, _, _)
LegalPlanFrom(G, p, goal, actions) ==
    IF actions = <<>> THEN p = goal
    ELSE \E mv \in LegalMoves(G, p) :
            mv[1] = Head(actions) /\ LegalPlanFrom(G, mv[2], goal, Tail(actions))

Finished == search.pc = "done"

Found == search.pc = "done" /\ search.result.path # NonePath

----------------------------------------------------------------------------
(* Claims *)

\* C1: whenever A* (AS1, AS2) and uniform-cost search both find a path for a
\* grid and pair, A* returns the cost uniform-cost search returns.
AStarCostEqualsUniformCost ==
    (Found /\ search.strategy \in {AS1, AS2}
        /\ SolveWith(grid, problem, UC).path # NonePath)
    => search.result.cost = SolveWith(grid, problem, UC).cost

\* A* has returned a path that is cheaper than the one breadth-first returns
AStarCheaperThanBreadthFirst ==
    /\ Found /\ search.strategy \in {AS1, AS2}
    /\ SolveWith(grid, problem, UC).path # NonePath
    /\ search.result.cost < SolveWith(grid, problem, BF).cost

\* C2: the cost uniform-cost search returns is the minimum over all legal
\* action sequences from store to customer, and no strategy returns less.
UniformCostIsOptimal ==
    (Found /\ search.strategy \in KnownStrategies)
    => /\ search.result.cost >= OptimalCost(grid, problem)
       /\ search.result.cost >= SolveWith(grid, problem, UC).cost
       /\ search.strategy = UC => search.result.cost = OptimalCost(grid, problem)

\* uniform-cost search has returned a path that took a relaxation: it is
\* cheaper than the path of breadth-first search and has as many actions
UniformCostBeatsBreadthFirst ==
    /\ Found /\ search.strategy = UC
    /\ search.result.cost < SolveWith(grid, problem, BF).cost
    /\ Len(search.result.path) >= 2

\* C3: the path breadth-first search returns has at most as many actions as the
\* path any other strategy returns for the same grid and pair.
BreadthFirstFewestActions ==
    (Found /\ search.strategy \in KnownStrategies)
    => /\ SolveWith(grid, problem, BF).path # NonePath
       /\ Len(SolveWith(grid, problem, BF).path) <= Len(search.result.path)

\* another strategy has returned a path longer than breadth-first's
LongerThanBreadthFirst ==
    /\ Found /\ search.strategy \in KnownStrategies \ {BF}
    /\ Len(SolveWith(grid, problem, BF).path) < Len(search.result.path)

\* C4: a returned action sequence is a legal plan from the store to the
\* customer and get_cost_of_actions on it is the reported cost, not infinite.
ReturnedPlanIsLegal ==
    Found
    => /\ LegalPlanFrom(grid, problem.start_pos, problem.goal_pos, search.result.path)
       /\ get_cost_of_actions(grid, problem, search.result.path) = search.result.cost
       /\ search.result.cost # Infinity

\* a path through a tunnel and a heavy segment has been returned
ReturnedPlanWithTunnel ==
    /\ Found
    /\ \E i \in 1..Len(search.result.path) : search.result.path[i] = "tunnel"
    /\ Len(search.result.path) >= 2
    /\ search.result.cost > Len(search.result.path)

CompleteStrategies == {BF, UC, AS1, AS2, ID}

SolveTerminates == (search.strategy \in KnownStrategies) ~> Finished

\* a search has ended without a path on a grid where the store's cell lies on
\* a cycle and in a tunnel, after dropping a node it had already explored
TerminatedOnCyclicGrid ==
    /\ Finished /\ search.strategy \in KnownStrategies
    /\ search.result.path = NonePath
    /\ problem.start_pos \in DOMAIN grid.tunnels
    /\ Cardinality(LegalMoves(grid, problem.start_pos)) >= 2
    /\ search.result.nodes_expanded > Cardinality(Cells(grid.m, grid.n))

\* C8: solve() with an identifier that is none of the eight strategies fails
\* with an error before any node is expanded and returns no result: it never
\* falls back to a default strategy or heuristic.
UnknownStrategyFails ==
    search.strategy \notin KnownStrategies
    => /\ search.pc \in {"init", "error"}
       /\ search.nodes_expanded = 0
       /\ runs = <<<<>>>>

\* the customer has a found path from some store: by any strategy for
\* balanced_cost_assignment, by the given one for
\* _balanced_assignment_for_strategy
HasFoundPath(a, customer_idx) ==
    \E i \in 1..Len(a.analysis_data.pairwise_analysis) :
        LET pair == a.analysis_data.pairwise_analysis[i]
        IN  /\ pair.customer_idx = customer_idx
            /\ \E j \in 1..Len(pair.metrics_by_strategy) :
                   /\ pair.metrics_by_strategy[j].path_found
                   /\ a.method = balanced_for_strategy
                          => pair.metrics_by_strategy[j].strategy = a.search_strategy

\* the returned assignments that name the customer
AssignmentsOf(a, customer_idx) ==
    {j \in 1..Len(a.assignments) : a.assignments[j].customer_idx = customer_idx}

Customers(a) == 0..(a.analysis_data.grid_info.customer_count - 1)

LoadSpread(store_loads) ==
    -MinOf({-store_loads[j] : j \in 1..Len(store_loads)}) - MinLoad(store_loads)

\* an assignment was appended by the fallback pass: its customer is not flagged
FallbackPlaced(a) ==
    \E j \in 1..Len(a.assignments) :
        ~a.customer_assigned[a.assignments[j].customer_idx + 1]

\* C10: with max_load_diff = k >= 0, after every admission of the first pass
\* the largest and the smallest store load differ by at most k; the final loads
\* differ by more only if the fallback pass placed a customer.
FirstPassKeepsBalance ==
    (plan.pc \in {"first_pass", "fallback", "done"} /\ plan.max_load_diff >= 0)
    => /\ plan.pc = "first_pass" => ~FallbackPlaced(plan)
       /\ LoadSpread(plan.store_loads) > plan.max_load_diff => FallbackPlaced(plan)

\* the first pass admitted a customer and refused another, and the fallback
\* pass has pushed the loads further apart than max_load_diff
FallbackBrokeBalance ==
    /\ plan.pc = "done"
    /\ \E c \in Customers(plan) : plan.customer_assigned[c + 1]
    /\ plan.max_load_diff >= 1
    /\ FallbackPlaced(plan)
    /\ LoadSpread(plan.store_loads) > plan.max_load_diff

\* the costs recorded for the customer: every found path from every store by
\* every strategy, as <<store_idx, strategy, cost>>
RecordedCosts(analysis_data, customer_idx) ==
    {<<analysis_data.pairwise_analysis[i].store_idx,
       analysis_data.pairwise_analysis[i].metrics_by_strategy[j].strategy,
       analysis_data.pairwise_analysis[i].metrics_by_strategy[j].cost>> :
        <<i, j>> \in {ij \in (1..Len(analysis_data.pairwise_analysis))
                              \X (1..Len(strategies)) :
            /\ analysis_data.pairwise_analysis[ij[1]].customer_idx = customer_idx
            /\ analysis_data.pairwise_analysis[ij[1]]
                   .metrics_by_strategy[ij[2]].path_found}}

MinRecordedCost(analysis_data, customer_idx) ==
    MinOf({r[3] : r \in RecordedCosts(analysis_data, customer_idx)})

\* the sum of the minimum recorded costs of the customers from customer_idx on
RECURSIVE SumOfMinima(_, _)
SumOfMinima(analysis_data, customer_idx) ==
    IF customer_idx >= analysis_data.grid_info.customer_count THEN 0
    ELSE (IF RecordedCosts(analysis_data, customer_idx) = {} THEN 0
          ELSE MinRecordedCost(analysis_data, customer_idx))
         + SumOfMinima(analysis_data, customer_idx + 1)

\* C11: pure_cost_optimal_assignment gives every customer with a found path
\* one assignment, to a store and strategy whose recorded cost is the minimum
\* over all stores and strategies that found a path, with that minimum as its
\* cost, whatever the other customers get; total_cost is the sum of the minima.
PureCostAssignsMinimum ==
    plan.pc = "pure_done"
    => /\ \A c \in Customers(plan) :
            IF RecordedCosts(plan.analysis_data, c) = {}
            THEN AssignmentsOf(plan, c) = {}
            ELSE /\ Cardinality(AssignmentsOf(plan, c)) = 1
                 /\ \A j \in AssignmentsOf(plan, c) :
                        /\ plan.assignments[j].cost
                               = MinRecordedCost(plan.analysis_data, c)
                        /\ <<plan.assignments[j].store_idx,
                              plan.assignments[j].strategy,
                              plan.assignments[j].cost>>
                               \in RecordedCosts(plan.analysis_data, c)
       /\ plan.total_cost = SumOfMinima(plan.analysis_data, 0)

\* a customer went to the second store because it is cheaper than the first,
\* and two customers went to the same store
PureCostChoseCheaperStore ==
    /\ plan.pc = "pure_done"
    /\ \E j, k \in 1..Len(plan.assignments) :
           /\ plan.assignments[j].store_idx = 1
           /\ \E r \in RecordedCosts(plan.analysis_data,
                                      plan.assignments[j].customer_idx) :
                  r[1] = 0 /\ r[3] > plan.assignments[j].cost
           /\ k # j /\ plan.assignments[k].store_idx = 1

\* C12: the assignment layer never fails: after analyze_all_pairs, none of
\* pure_cost_optimal_assignment, balanced_cost_assignment and
\* compare_assignment_strategies raises, on a grid without stores or without
\* customers or with an unreachable customer included.
AssignmentLayerNeverFails ==
    plan.pc = "error"
    => plan.method \notin {pure_cost_optimal, balanced_cost, compare_strategies}

\* the store stands on the entrance of the only tunnel, the customer on its
\* exit, and every segment of the grid has a level of 2 or more
TunnelFromStoreToCustomer ==
    /\ problem.start_pos # problem.goal_pos
    /\ get_tunnel_exit(grid, problem.start_pos) = problem.goal_pos
    /\ DOMAIN grid.tunnels = {problem.start_pos, problem.goal_pos}
    /\ \A e \in GridEdges(grid.m, grid.n) : get_traffic_level(grid, e[1], e[2]) >= 2

\* C13: with the store on the entrance of the only tunnel, the customer on its
\* exit at Manhattan distance d >= 1 and every segment at level 2 or more,
\* uniform-cost search and A* (AS1) return the plan 'tunnel' with cost d.
TunnelIsTaken ==
    (Finished /\ search.strategy \in {UC, AS1} /\ TunnelFromStoreToCustomer)
    => /\ search.result.path = <<"tunnel">>
       /\ search.result.cost
              = manhattan_distance(problem.start_pos, problem.goal_pos)

\* A* has taken the tunnel to the customer on the opposite corner
TunnelTakenAcrossGrid ==
    /\ Finished /\ search.strategy = AS1 /\ TunnelFromStoreToCustomer
    /\ manhattan_distance(problem.start_pos, problem.goal_pos) = 2
    /\ search.result.path = <<"tunnel">>

\* the place of an action in the order up, down, left, right, tunnel
ActionRank(action) ==
    CASE action = "up" -> 1 [] action = "down" -> 2 [] action = "left" -> 3
      [] action = "right" -> 4 [] action = "tunnel" -> 5 [] OTHER -> 0

\* C14: on the grid of a finished search, get_successors returns, in the order up, down, left, right, one
\* successor for each direction whose neighbour is inside the grid over a
\* segment with a defined level other than 0 (step cost that level, successor
\* cost the state's cost plus the level), then one 'tunnel' successor (step
\* cost the Manhattan distance) iff the position has a tunnel exit; nothing
\* crosses the bounds, a blocked segment or an undefined one.
SuccessorsInFixedOrder ==
    Finished =>
    \A c \in Cells(grid.m, grid.n), k \in 0..MaxTraffic :
        LET succ == get_successors(grid, problem,
                                   DeliveryState(c, problem.goal_pos, k))
        IN  /\ {<<succ[i].action, succ[i].state.current_pos, succ[i].cost>> :
                    i \in 1..Len(succ)} = LegalMoves(grid, c)
            /\ Len(succ) = Cardinality(LegalMoves(grid, c))
            /\ \A i, j \in 1..Len(succ) :
                   i < j => ActionRank(succ[i].action) < ActionRank(succ[j].action)
            /\ \A i \in 1..Len(succ) :
                   /\ succ[i].state.cost_so_far = k + succ[i].cost
                   /\ succ[i].state.target_pos = problem.goal_pos
                   /\ succ[i].state.current_pos \in Cells(grid.m, grid.n)

\* the search has expanded the store's node, whose successors are one move
\* over a heavy segment and the tunnel: the other segment is blocked
ExpandedMoveThenTunnel ==
    /\ Finished /\ search.nodes_expanded >= 1
    /\ LET succ == get_successors(grid, problem, get_start_state(problem))
       IN  /\ Len(succ) = 2
           /\ succ[1].action # "tunnel" /\ succ[1].cost > 1
           /\ succ[2].action = "tunnel"
           /\ \E q \in Cells(grid.m, grid.n) : is_blocked(grid, problem.start_pos, q)

\* every action of the list, taken in turn from p, is a legal move of the grid
RECURSIVE Replayable(_, _, _)
Replayable(G, p, actions) ==
    \/ actions = <<>>
    \/ \E mv \in LegalMoves(G, p) :
           mv[1] = Head(actions) /\ Replayable(G, mv[2], Tail(actions))

\* the sum of the levels and tunnel distances along a replayable list
RECURSIVE LegalCost(_, _, _)
LegalCost(G, p, actions) ==
    IF actions = <<>> THEN 0
    ELSE LET mv == CHOOSE x \in LegalMoves(G, p) : x[1] = Head(actions)
         IN  mv[3] + LegalCost(G, mv[2], Tail(actions))

\* C15: get_cost_of_actions returns the infinite sentinel iff some action of
\* the list, replayed from the start position, crosses a blocked segment or
\* one without a level, is none of up, down, left, right, tunnel, or is
\* 'tunnel' where no tunnel starts; otherwise it returns the sum of the levels
\* and tunnel distances along the list; it raises in no case.
CostOfActionsIsSumOrSentinel ==
    plan.pc = "replayed"
    => /\ plan.cost = Infinity
              <=> ~Replayable(grid, problem.start_pos, plan.actions)
       /\ Replayable(grid, problem.start_pos, plan.actions)
              => plan.cost = LegalCost(grid, problem.start_pos, plan.actions)

\* three actions with a tunnel and a heavy segment among them were summed
ReplayedTunnelAndHeavy ==
    /\ plan.pc = "replayed" /\ Len(plan.actions) = MaxActions
    /\ \E i \in 1..Len(plan.actions) : plan.actions[i] = "tunnel"
    /\ plan.cost # Infinity /\ plan.cost > MaxActions + 1

\* C16: after any sequence of add_tunnel calls the tunnel mapping is
\* symmetric, the exit of the exit of a position being the position, so that
\* every position is in at most one tunnel pair.
TunnelsSymmetric ==
    \A p \in DOMAIN grid.tunnels :
        /\ grid.tunnels[p] \in DOMAIN grid.tunnels
        /\ grid.tunnels[grid.tunnels[p]] = p

RECURSIVE SumOf(_)
SumOf(loads) == IF loads = <<>> THEN 0 ELSE Head(loads) + SumOf(Tail(loads))

\* the store_loads of one assignment result has an entry for each of the
\* store_count stores, each the number of assignments to that store
LoadsPerStore(result, store_count) ==
    /\ Len(result.store_loads) = store_count
    /\ \A k \in 1..Len(result.store_loads) :
           result.store_loads[k]
               = Cardinality({j \in 1..Len(result.assignments) :
                                 result.assignments[j].store_idx = k - 1})
    /\ SumOf(result.store_loads) = Len(result.assignments)

\* C17: for the unconstrained and the load-balanced assignment of every
\* strategy, the reported store_loads has one entry per store of the grid,
\* entry i the number of customers assigned to store i, and the entries sum
\* to the number of assignments.
StoreLoadsHaveOneEntryPerStore ==
    (plan.pc = "analyzed" /\ plan.analysis_data.grid_info # NoGridInfo)
    => \A i \in 1..Len(plan.analysis_data.assignments_by_strategy) :
          LET by_strategy == plan.analysis_data.assignments_by_strategy[i]
              store_count == plan.analysis_data.grid_info.store_count
          IN  /\ LoadsPerStore(by_strategy.pure_cost, store_count)
              /\ LoadsPerStore(by_strategy.balanced, store_count)

\* a search of the pair that has returned, returned what it returns alone
SameAsAlone ==
    \A i \in 1..2 :
        search[i].pc = "done"
        => search[i].result = SolveWith(grid, problem[i], search[i].strategy)

Scenarios ==
    {<<Grid(grid.m, grid.n, <<store>>, <<customer>>, traffic, tunnels),
       DeliveryProblem(store, customer)>> :
        <<store, customer, traffic, tunnels>> \in
            StoreCells(grid.m, grid.n) \X Cells(grid.m, grid.n)
                \X TrafficMaps(grid.m, grid.n)
                \X TunnelMaps(grid.m, grid.n, MaxTunnels)}

\* what solve() returns for GenericSearch(problem, strategy, heuristic_name)
SolveWithHeuristic(G, P, strategy, heuristic_name) ==
    RunToEnd(G, P, GenericSearch(strategy, heuristic_name)).result

\* on some grid and pair greedy search returns a path that costs more than
\* the path of uniform-cost search
GreedyNonOptimalSomewhere ==
    \E sc \in Scenarios, strategy \in {GR1, GR2} :
        /\ SolveWith(sc[1], sc[2], strategy).path # NonePath
        /\ SolveWith(sc[1], sc[2], strategy).cost > SolveWith(sc[1], sc[2], UC).cost

\* on some grid and pair A*, run with the heuristic named double_manhattan,
\* returns a path that costs more than the path of uniform-cost search
DoubledManhattanNonOptimalSomewhere ==
    \E sc \in Scenarios, strategy \in {AS1, AS2} :
        /\ SolveWithHeuristic(sc[1], sc[2], strategy, "double_manhattan").path
               # NonePath
        /\ SolveWithHeuristic(sc[1], sc[2], strategy, "double_manhattan").cost
               > SolveWith(sc[1], sc[2], UC).cost

\* C19: greedy search and the doubled-Manhattan heuristic are each
\* non-optimal somewhere: a grid and pair exist on which GR1 or GR2 returns a
\* cost above that of uniform-cost search, and one on which the engine run
\* with the doubled-Manhattan heuristic does.
GreedyAndDoubledManhattanNonOptimal ==
    GreedyNonOptimalSomewhere /\ DoubledManhattanNonOptimalSomewhere

\* depth-first search is about to pop a node at or beyond its depth ceiling
\* whose state is not the goal
CeilingPop ==
    /\ search.pc \in {"DF", "ID"} /\ search.frontier # <<>>
    /\ search.frontier[Len(search.frontier)].depth >= search.limit
    /\ ~is_goal_state(problem, search.frontier[Len(search.frontier)].state)

\* the pop takes the node off the frontier and pushes nothing
PopPushesNothing ==
    search'.frontier = SubSeq(search.frontier, 1, Len(search.frontier) - 1)

\* C20: in depth-first search with a depth ceiling, a node popped at or beyond
\* the ceiling that is not the goal generates no successors, and its state is
\* nevertheless in the explored set after the pop.
CeilingNodeMarkedExplored ==
    [][CeilingPop
         => /\ PopPushesNothing
            /\ StateKey(search.frontier[Len(search.frontier)].state)
                   \in search'.explored]_vars

\* C20 as amended: such a node generates no successors and the pop leaves
\* the explored set as it was: the state is not added to it.
CeilingNodeNotMarked ==
    [][CeilingPop
         => /\ PopPushesNothing
            /\ search'.explored = search.explored]_vars

\* the pass of iterative deepening with ceiling 1 has emptied its frontier:
\* the store's node was expanded, its successors were popped at the ceiling,
\* and only the store's state is in the explored set
CeilingPassLeftStoreOnly ==
    /\ search.pc = "ID" /\ search.limit = 1 /\ search.frontier = <<>>
    /\ search.explored = {StateKey(get_start_state(problem))}
    /\ search.nodes_expanded >= 3

\* a search method is in its while loop with a node to pop
InLoop ==
    /\ search.pc \in {"BF", "DF", "ID", "UC", "GR", "AS"}
    /\ search.frontier # <<>>

\* the node the next pass of the loop pops
NextPopped ==
    CASE search.pc = "BF" -> Head(search.frontier)
      [] search.pc \in {"DF", "ID"} -> search.frontier[Len(search.frontier)]
      [] OTHER -> heappop(search.frontier).item.node

\* the nodes on the frontier of a search object
FrontierNodes(s) ==
    IF s.pc \in {"UC", "GR", "AS"}
    THEN {s.frontier[i].node : i \in 1..Len(s.frontier)}
    ELSE {s.frontier[i] : i \in 1..Len(s.frontier)}

\* the (position, target) pairs whose successors this run has generated
ExpandedPositions == {<<k[1], k[2]>> : k \in search.explored}

\* the next pass pops a node on an already expanded position
PopsExpandedPosition ==
    /\ InLoop
    /\ <<NextPopped.state.current_pos, NextPopped.state.target_pos>>
           \in ExpandedPositions

\* C21: within one run (one depth-first iteration for ID) successors are
\* generated at most once per (position, target): a popped node on an already
\* expanded position, whatever its accumulated cost, is dropped: the pass
\* puts no node on the frontier, returns nothing and expands nothing.
ExpandedAtMostOnce ==
    [][PopsExpandedPosition
         => /\ search'.pc = search.pc
            /\ FrontierNodes(search') \subseteq FrontierNodes(search)
            /\ search'.explored = search.explored]_vars

\* uniform-cost search is about to pop a node on an expanded position that
\* was reached again at a higher cost
PopsExpandedAtHigherCost ==
    /\ PopsExpandedPosition /\ search.pc = "UC"
    /\ NextPopped.state.cost_so_far
           > search.cost_so_far[StateKey(NextPopped.state)]

\* C22: the nodes-expanded a solve() call returns is the number of nodes
\* popped during that call, also for a second or later call on the same
\* GenericSearch object: every call on an object returns the triple its first
\* call returned, the one a new object returns.
LaterCallsReturnSameTriple ==
    \A k \in 1..Len(runs) : \A i \in 1..Len(runs[k]) :
        /\ runs[k][i] = runs[k][1]
        /\ runs[k][i] = SolveWith(grid, problem, search.strategy)

\* the grids of the size, tunnels and blocked segments of G whose open
\* segments carry any positive traffic levels
SameButTraffic(G) ==
    {[G EXCEPT !.traffic = t] : t \in
        {u \in TrafficMaps(G.m, G.n) :
            /\ DOMAIN u = DOMAIN G.traffic
            /\ \A e \in DOMAIN u : (u[e] = 0) <=> (G.traffic[e] = 0)}}

\* C23: greedy search orders its frontier by the heuristic alone, never by
\* path cost: on every grid that differs from the grid of a finished GR1 or
\* GR2 run only in its positive traffic levels, the same strategy returns the
\* same action sequence after the same number of pops.
GreedyIgnoresTraffic ==
    (Finished /\ search.strategy \in {GR1, GR2}) =>
        \A G \in SameButTraffic(grid) :
            /\ SolveWith(G, problem, search.strategy).path = search.result.path
            /\ SolveWith(G, problem, search.strategy).nodes_expanded
                   = search.result.nodes_expanded

\* uniform-cost search is about to pop a node
UniformCostPop == search.pc = "UC" /\ search.frontier # <<>>

\* the popped node is no goal node and its state is not explored yet: the pop
\* marks the state explored and relaxes its successors
UniformCostExpands ==
    /\ UniformCostPop
    /\ ~is_goal_state(problem, NextPopped.state)
    /\ StateKey(NextPopped.state) \notin search.explored

\* the nodes the step pushed
Pushed == FrontierNodes(search') \ FrontierNodes(search)

\* the cheapest cost of a legal action sequence from the store to the position
\* of the state
CheapestTo(state) ==
    OptimalCost(grid, DeliveryProblem(problem.start_pos, state.current_pos))

\* C24: uniform-cost search pushes a child only if its state has no recorded
\* best cost or its path cost is strictly below the recorded one (so of the
\* children one expansion pushes for one state no two cost the same, and the
\* record ends at the cheapest of them); no node left on or pushed to the
\* frontier costs less than the node popped, so the pops come in
\* non-decreasing path cost; and the node whose state is marked explored
\* costs the cheapest cost of any path from the store to that state.
UniformCostRelaxesStrictly ==
    [][UniformCostPop =>
        /\ \A n \in FrontierNodes(search') : n.path_cost >= NextPopped.path_cost
        /\ UniformCostExpands =>
            /\ search'.explored = search.explored \cup {StateKey(NextPopped.state)}
            /\ NextPopped.path_cost = CheapestTo(NextPopped.state)
            /\ \A n \in Pushed :
                /\ \/ StateKey(n.state) \notin DOMAIN search.cost_so_far
                   \/ n.path_cost < search.cost_so_far[StateKey(n.state)]
                /\ search'.cost_so_far[StateKey(n.state)] <= n.path_cost
                /\ \A o \in Pushed :
                       (o # n /\ StateKey(o.state) = StateKey(n.state))
                           => o.path_cost # n.path_cost
      ]_vars

\* uniform-cost search has explored two states and holds two nodes of one
\* state at different path costs: a cheaper path to a recorded state was pushed
UniformCostRelaxedAState ==
    /\ search.pc = "UC"
    /\ Cardinality(search.explored) >= 2
    /\ \E n, o \in FrontierNodes(search) :
           /\ StateKey(n.state) = StateKey(o.state)
           /\ n.path_cost < o.path_cost
           /\ n.parent # o.parent

\* breadth-first search is about to pop a node whose state is not explored
BreadthFirstExpands ==
    /\ search.pc = "BF" /\ search.frontier # <<>>
    /\ StateKey(Head(search.frontier).state) \notin search.explored

\* the successors of the node breadth-first search is about to pop
NextSuccessors == get_successors(grid, problem, Head(search.frontier).state)

\* the positions in NextSuccessors of the successors that satisfy the goal
GoalSuccessors ==
    {i \in 1..Len(NextSuccessors) : is_goal_state(problem, NextSuccessors[i].state)}

\* C25: breadth-first search tests the goal on a child when it generates it
\* and never on a popped node: no node on the frontier satisfies the goal; a
\* pop that generates a goal child returns at once the path to the first such
\* child, with its cost and the pops so far; any other pop returns nothing.
BreadthFirstGoalAtGeneration ==
    [][search.pc = "BF" =>
        /\ \A i \in 1..Len(search.frontier) :
               ~is_goal_state(problem, search.frontier[i].state)
        /\ (BreadthFirstExpands /\ GoalSuccessors # {}) =>
               LET t == NextSuccessors[CHOOSE i \in GoalSuccessors :
                                           \A j \in GoalSuccessors : i <= j]
               IN  /\ search'.pc = "done"
                   /\ search'.result =
                          Result(Append(get_path(Head(search.frontier)), t.action),
                                 Head(search.frontier).path_cost + t.cost,
                                 search.nodes_expanded + 1)
        /\ (search.frontier # <<>> /\ ~(BreadthFirstExpands /\ GoalSuccessors # {}))
               => search'.pc = "BF"
      ]_vars

\* breadth-first search returned a path of two actions after two pops: the
\* goal child was returned when the second pop generated it
GoalChildReturnedUnpopped ==
    /\ Found /\ search.strategy = BF
    /\ Len(search.result.path) = 2
    /\ search.result.nodes_expanded = 2

\* the pops of the iterations of iterative deepening so far
PopsSoFar == search.total_nodes_expanded + search.nodes_expanded

\* C26: iterative deepening starts at ceiling 0 and runs depth-first search
\* under the ceiling of the iteration; when an iteration empties its frontier
\* the next one starts from the store under the ceiling raised by one, unless
\* that ceiling is above 1000, when the no-path result is returned; the first
\* pop of a goal node returns its path, of at most as many actions as the
\* ceiling; either return reports the pops of all iterations.
DeepeningRaisesCeiling ==
    [][/\ (search.pc # "ID" /\ search'.pc = "ID") =>
              search'.depth = 0 /\ search'.limit = 0 /\ PopsSoFar' = 0
       /\ search.pc = "ID" =>
          /\ search.limit = search.depth
          /\ search.frontier = <<>> =>
                IF search.depth + 1 > DepthCap
                THEN /\ search'.pc = "done"
                     /\ search'.result = Result(NonePath, Infinity, PopsSoFar)
                ELSE /\ search'.pc = "ID"
                     /\ search'.depth = search.depth + 1
                     /\ search'.frontier = <<search.start_node>>
                     /\ search'.explored = {}
                     /\ search'.nodes_expanded = 0
                     /\ PopsSoFar' = PopsSoFar
          /\ search.frontier # <<>> =>
                IF is_goal_state(problem, NextPopped.state)
                THEN /\ search'.pc = "done"
                     /\ search'.result = Result(get_path(NextPopped),
                                                NextPopped.path_cost, PopsSoFar + 1)
                     /\ Len(search'.result.path) <= search.depth
                ELSE /\ search'.pc = "ID"
                     /\ search'.depth = search.depth
                     /\ PopsSoFar' = PopsSoFar + 1
      ]_vars

\* iterative deepening returned a path of two actions: the iterations under
\* the ceilings 0, 1 and 2 popped one, two and three nodes at least
DeepeningFoundUnderThirdCeiling ==
    /\ Found /\ search.strategy = ID
    /\ Len(search.result.path) = 2
    /\ search.result.nodes_expanded >= 6

\* analysis_data with the metrics of every strategy but search_strategy removed
OnlyStrategy(analysis_data, search_strategy) ==
    LET Own(metrics) == metrics.strategy = search_strategy
    IN  [grid_info |-> analysis_data.grid_info,
         pairwise_analysis |->
             [i \in 1..Len(analysis_data.pairwise_analysis) |->
                 [analysis_data.pairwise_analysis[i] EXCEPT
                     !.metrics_by_strategy = SelectSeq(@, Own)]]]

\* what balanced_cost_assignment returns on the data of one strategy
BalancedOnOwnMetrics(analysis_data, search_strategy, max_load_diff) ==
    BalancedToEnd(BalancedStart(OnlyStrategy(analysis_data, search_strategy),
                                balanced_cost, NoneStrategy, max_load_diff))

\* C27: the per-strategy variants return what the all-strategy algorithms
\* return on the data with the metrics of the other strategies removed: the
\* assignments (store, cost and strategy per customer) and total cost that
\* analyze_all_pairs records from _pure_cost_assignment_for_strategy and
\* _balanced_assignment_for_strategy are those of pure_cost_optimal_assignment
\* and balanced_cost_assignment, with the loads of the balanced result; and a
\* call of _balanced_assignment_for_strategy with any max_load_diff ends as
\* balanced_cost_assignment does.
PerStrategyVariantsRefine ==
    /\ (plan.pc = "analyzed" /\ plan.analysis_data.grid_info # NoGridInfo) =>
        \A i \in 1..Len(strategies) :
            LET own == plan.analysis_data.assignments_by_strategy[i]
                data == OnlyStrategy(plan.analysis_data, strategies[i])
                pure == pure_cost_optimal_assignment(data)
                balanced == BalancedOnOwnMetrics(plan.analysis_data, strategies[i], 1)
            IN  /\ own.pure_cost.assignments = pure.assignments
                /\ own.pure_cost.total_cost = pure.total_cost
                /\ own.balanced.assignments = balanced.assignments
                /\ own.balanced.total_cost = balanced.total_cost
                /\ own.balanced.store_loads = balanced.store_loads
    /\ (plan.pc \in {"done", "error"} /\ plan.method = balanced_for_strategy) =>
        LET balanced == BalancedOnOwnMetrics(plan.analysis_data,
                            plan.search_strategy, plan.max_load_diff)
        IN  /\ plan.pc = balanced.pc
            /\ plan.pc = "done" =>
                /\ plan.assignments = balanced.assignments
                /\ plan.total_cost = balanced.total_cost
                /\ plan.store_loads = balanced.store_loads

\* _balanced_assignment_for_strategy has returned for a strategy whose costs
\* are not the cheapest recorded, after placing a customer by the fallback pass
PerStrategyBalancedWithFallback ==
    /\ plan.pc = "done" /\ plan.method = balanced_for_strategy
    /\ Len(plan.assignments) >= 2
    /\ LoadSpread(plan.store_loads) > plan.max_load_diff
    /\ plan.total_cost > BalancedToEnd(BalancedStart(plan.analysis_data,
                             balanced_cost, NoneStrategy, plan.max_load_diff)).total_cost

\* C28: iterative deepening finds a shallowest solution: the path it returns
\* has as many actions as the path breadth-first search returns for the same
\* grid and pair.
DeepeningFindsShallowest ==
    (Found /\ search.strategy = ID) =>
        Len(search.result.path) = Len(SolveWith(grid, problem, BF).path)

\* what pure_cost_optimal_assignment returns on the data of the assignment a
Unconstrained(a) == pure_cost_optimal_assignment(a.analysis_data)

\* the assignments of the unconstrained result that name the customer
UnconstrainedOf(a, customer_idx) ==
    {j \in 1..Len(Unconstrained(a).assignments) :
        Unconstrained(a).assignments[j].customer_idx = customer_idx}

\* C29: for any max_load_diff the total cost of balanced_cost_assignment is at
\* least the total cost of pure_cost_optimal_assignment on the same data, and
\* both assign the same customers: each customer with a found path from some
\* store once, the others never.
BalancedCostsNoLess ==
    (plan.pc = "done" /\ plan.method = balanced_cost) =>
        /\ plan.total_cost >= Unconstrained(plan).total_cost
        /\ \A c \in Customers(plan) :
               LET once == IF HasFoundPath(plan, c) THEN 1 ELSE 0
               IN  /\ Cardinality(AssignmentsOf(plan, c)) = once
                   /\ Cardinality(UnconstrainedOf(plan, c)) = once

\* balanced_cost_assignment has returned a total above the unconstrained one
\* on a grid with a customer that no store reaches
BalancingCostMore ==
    /\ plan.pc = "done" /\ plan.method = balanced_cost
    /\ plan.total_cost > Unconstrained(plan).total_cost
    /\ \E c \in Customers(plan) : ~HasFoundPath(plan, c)

\* C30: in the metrics analyze_single_delivery records for every store,
\* customer and strategy the outcome fields agree: plan is NO_PATH exactly
\* when path_found is false, which is exactly when cost is infinite; a found
\* path, the empty one of a store on its customer's cell included, is not
\* recorded as NO_PATH.
OutcomeFieldsAgree ==
    plan.pc = "analyzed" =>
        \A i \in 1..Len(plan.analysis_data.pairwise_analysis) :
            \A j \in 1..Len(plan.analysis_data.pairwise_analysis[i].metrics_by_strategy) :
                LET metrics ==
                        plan.analysis_data.pairwise_analysis[i].metrics_by_strategy[j]
                IN  /\ (metrics.plan = <<"NO_PATH">>) <=> ~metrics.path_found
                    /\ ~metrics.path_found <=> (metrics.cost = Infinity)

====
